---- MODULE Spec2Model ----
(***************************************************************************)
(* The external transcription job lifecycle of sermon_summarizer:          *)
(* WhisperTranscriptionManager.upload_and_get_task_id and poll_for_result  *)
(* (src/src/sermon_summarizer/trascription_manager.py), run against a      *)
(* backend that answers every request nondeterministically.                *)
(* Its two offline operations, seconds_to_srt_time and                     *)
(* save_transcription_as_srt, are each applied once to an argument drawn   *)
(* from a bounded set (CodecSpec, SrtSpec).                                *)
(* PairSpec runs two instances of poll_for_result side by side, WideSpec   *)
(* lets the backend answer out of its protocol, and ExternalSpec is the    *)
(* other manager of the file, ExternalTranscriptionManager.                *)
(* ManagerSpec calls all four methods of one manager.  The configuration   *)
(* loader (src/src/sermon_summarizer/config/loader.py) has ConvertSpec,    *)
(* OverrideSpec, LoadSpec and RoundTripSpec.                               *)
(*                                                                         *)
(* A JSON object is a function from its keys to its values, so that        *)
(* dict.get(key, default) is Get below.  JSON null / Python None is the    *)
(* value NoneVal.                                                          *)
(***************************************************************************)
EXTENDS Integers, Sequences, FiniteSets, TLC

VARIABLES
    pc,             \* position of the pipeline run (see Positions)
    bounded,        \* TRUE: the history variables record and bound the run
    submission,     \* the audio file and the backend's answer to the POST
    upload,         \* outcome of upload_and_get_task_id
    parsed,         \* history: response.json() of the submission was reached
    posts,          \* history: number of submission requests sent
    task_id,        \* argument of poll_for_result
    last_progress,  \* local of poll_for_result (line 69)
    response,       \* the answer to the latest status query
    result,         \* outcome of poll_for_result
    emitted,        \* what the latest step printed
    queries,        \* history: the job ids of the status queries made
    sleeps,         \* history: the durations slept
    log,            \* history: everything poll_for_result printed
    hist,           \* history: the polls handled so far, classified
    calls,          \* history: number of calls of upload_and_get_task_id
    call,           \* the call of seconds_to_srt_time or
                    \* save_transcription_as_srt being made, if any, with
                    \* its arguments (before: the files when it was made)
    ret,            \* what that call returned
    files,          \* the files on disk: path -> content
    insts,          \* the pipeline instances that poll side by side, if
                    \* any: instance -> the locals of its poll_for_result
    environ,        \* os.environ: variable -> string
    attrs,          \* the manager's attributes API_SETTINGS and
                    \* POLL_INTERVAL
    bags            \* history: the data sent with each submission request

vars == <<pc, bounded, submission, upload, parsed, posts, task_id, last_progress,
          response, result, emitted, queries, sleeps, log, hist,
          calls, call, ret, files, insts, environ, attrs, bags>>

\* what upload_and_get_task_id and poll_for_result leave alone
offline == <<call, ret, files, insts, environ>>

----------------------------------------------------------------------------
(* Bounds of the model *)

MaxPolls == 3

\* calls of upload_and_get_task_id with the same audio
MaxCalls == 3

\* status queries of each of the instances that poll side by side
MaxPairPolls == 2

\* segments in the payload given to save_transcription_as_srt
MaxSegments == 2

\* seconds_to_srt_time is applied to every whole number of milliseconds
\* within CodecWindow of a pivot (see CodecInputs)
CodecWindow == 3

\* environment variables that are set when _apply_env_overrides is called
MaxEnv == 2

\* environment variables that are set when a configuration is saved and
\* loaded again
MaxSaveEnv == 1

----------------------------------------------------------------------------
(* Python values *)

NoneVal == "<None>"

\* dict.get(k, default)
Get(d, k, default) == IF k \in DOMAIN d THEN d[k] ELSE default

\* mutant: only None counts as false
Truthy_NotNone(x) == x # NoneVal

\* truth value of a string-or-None value (x or y, not x)
Truthy(x) == x # NoneVal /\ x # ""

\* line 36: the poll interval the constructor sets
POLL_INTERVAL == 5

\* lines 39-53: the decoding parameters the constructor sets (the two
\* thresholds in thousandths)
API_SETTINGS ==
    [model_size |-> "small", lang |-> "en", is_translate |-> FALSE,
     compute_type |-> "float16", beam_size |-> 5, best_of |-> 5,
     batch_size |-> 8, vad_filter |-> TRUE, no_speech_threshold |-> 500,
     log_prob_threshold |-> 0 - 1000, temperature |-> 0,
     word_timestamps |-> TRUE, condition_on_previous_text |-> TRUE]

\* mutant: the status of the response is never checked
RaisesForStatus_Never(code) == FALSE

\* Response.raise_for_status(): raises HTTPError for 4xx and 5xx
RaisesForStatus(code) == code >= 400

\* mutant: the handler catches connection errors only
IsRequestException_ConnectionOnly(t) == t = "ConnectionError"

\* mutant: there is no handler
IsRequestException_None(t) == FALSE

\* except requests.exceptions.RequestException
IsRequestException(t) == t \in {"ConnectionError", "HTTPError"}

NoExc == "none"

----------------------------------------------------------------------------
(* The backend *)

HttpCodes == {200, 404, 500}

\* what requests.post / requests.get can come back with
Replies(bodies) ==
    {[net |-> "down"]} \cup
    {[net |-> "up", code |-> c, body |-> b] : c \in HttpCodes, b \in bodies}

SubmitBodies ==
    { << >>,
      [message |-> "Task queued"],
      [identifier |-> NoneVal],
      [identifier |-> ""],
      [identifier |-> "job-1"],
      [identifier |-> "job-2", message |-> "Task queued"] }

RunningStatuses == {"queued", "pending", "in_progress", "processing"}
FailedStatuses == {"failed", "error"}
StatusStrings ==
    {"completed"} \cup FailedStatuses \cup RunningStatuses \cup {"paused"}
ProgressValues == {0, 3, 7}
ErrorValues == {NoneVal, "", "disk full"}

\* status bodies as the backend's protocol has them: a status string, a
\* numeric progress and an error message, each present or absent; an error
\* comes only with a failed job, and may be null or empty
StatusBodies ==
    LET S == {<< >>} \cup {[status |-> s] : s \in StatusStrings}
        P == {<< >>} \cup {[progress |-> p] : p \in ProgressValues}
        E == {<< >>} \cup {[error |-> e] : e \in ErrorValues}
        Es(s) == IF Get(s, "status", NoneVal) \in FailedStatuses
                 THEN E ELSE {<< >>}
    IN  UNION {{s @@ p @@ e : p \in P, e \in Es(s)} : s \in S}

(* A field whose value is not of the type the protocol gives it is held
   apart from the body, in the 'odd' part of the answer (a string is never
   compared with a number): here a progress that is null or a string. *)
OddFields(r) == IF "odd" \in DOMAIN r THEN r.odd ELSE << >>

OddReplies ==
    {[net |-> "up", code |-> 200, body |-> b, odd |-> [progress |-> v]] :
        b \in {<< >>, [status |-> "completed"], [status |-> "processing"],
               [status |-> "failed"]},
        v \in {NoneVal, "50%"}}

\* a failing query has no body the client looks at
StatusReplies ==
    {r \in Replies(StatusBodies) :
        r.net = "up" /\ r.code >= 400
            => r.body \in {<< >>, [status |-> "completed", progress |-> 7]}}

\* every answer to a status query, in the protocol or not
AnyReplies == StatusReplies \cup OddReplies

----------------------------------------------------------------------------
(* upload_and_get_task_id *)

Printed(kind, about) == [kind |-> kind, about |-> about]

\* mutant: a request that failed in transport is sent a second time
UploadOut_Retried(exc, sent, json, prints, value) ==
    [exc |-> exc,
     sent |-> IF exc \in {"ConnectionError", "HTTPError"} THEN 2 * sent ELSE sent,
     json |-> json, prints |-> prints, value |-> value]

UploadOut(exc, sent, json, prints, value) ==
    [exc |-> exc, sent |-> sent, json |-> json, prints |-> prints,
     value |-> value]

\* the body of upload_and_get_task_id for an audio file that is there or not
\* and the backend's answer to the POST
UploadBody(file, reply) ==
    IF file = "missing"
    THEN UploadOut("FileNotFoundError", 0, FALSE, << >>, NoneVal)
    ELSE IF reply.net = "down"
    THEN UploadOut("ConnectionError", 1, FALSE, << >>, NoneVal)
    ELSE IF RaisesForStatus(reply.code)
    THEN UploadOut("HTTPError", 1, FALSE, << >>, NoneVal)
    ELSE LET response_data == reply.body
             said == <<Printed("Upload response",
                               Get(response_data, "message", "Task queued"))>>
             id == Get(response_data, "identifier", NoneVal)
         IN  IF ~Truthy(id)
             THEN UploadOut("ValueError", 1, TRUE, said, NoneVal)
             ELSE UploadOut(NoExc, 1, TRUE, said, id)

\* the pipeline goes on to poll_for_result only with the handle that
\* upload_and_get_task_id returned; an exception ends the run
AfterUpload(out) == IF out.exc = NoExc THEN "submitted" ELSE "submit_failed"

\* mutant: the model size is left to the backend
PostData_NoModel(self) == [k \in DOMAIN self.API_SETTINGS \ {"model_size"} |->
                              self.API_SETTINGS[k]]

\* line 58: data=self.API_SETTINGS
PostData(self) == self.API_SETTINGS

Upload ==
    /\ pc = "submit"
    /\ \E file \in {"present", "missing"}, reply \in Replies(SubmitBodies) :
         LET out == UploadBody(file, reply)
         IN  /\ submission' = IF out.sent = 0 THEN [file |-> file]
                              ELSE [file |-> file, reply |-> reply]
             /\ bags' = IF out.sent = 0 THEN bags
                        ELSE Append(bags, PostData(attrs))
             /\ upload' = IF out.exc = NoExc
                          THEN [kind |-> "return", value |-> out.value]
                          ELSE [kind |-> "raise", exc |-> out.exc]
             /\ parsed' = out.json
             /\ posts' = posts + out.sent
             /\ calls' = calls + 1
             /\ emitted' = out.prints
             /\ pc' = AfterUpload(out)
    /\ UNCHANGED <<bounded, task_id, last_progress, response, result,
                   queries, sleeps, log, hist, offline, attrs>>

\* the caller submits the same audio once more
CallAgain ==
    /\ pc \in {"submitted", "submit_failed"}
    /\ calls < MaxCalls
    /\ pc' = "submit"
    /\ UNCHANGED <<bounded, submission, upload, parsed, posts, task_id,
                   last_progress, response, result, emitted, queries, sleeps,
                   log, hist, calls, offline, attrs, bags>>

----------------------------------------------------------------------------
(* poll_for_result *)

\* mutant: the retained progress starts at 0
StartPoll_FromZero ==
    /\ pc = "submitted"
    /\ task_id' = upload.value
    /\ last_progress' = 0
    /\ emitted' = <<Printed("Start time", NoneVal)>>
    /\ log' = IF bounded THEN log \o emitted' ELSE log
    /\ pc' = "query"
    /\ UNCHANGED <<bounded, submission, upload, parsed, posts, response, result,
                   queries, sleeps, hist, calls, offline, attrs, bags>>

\* lines 69-71: the locals before the loop
StartPoll ==
    /\ pc = "submitted"
    /\ task_id' = upload.value
    /\ last_progress' = -1
    /\ emitted' = <<Printed("Start time", NoneVal)>>
    /\ log' = IF bounded THEN log \o emitted' ELSE log
    /\ pc' = "query"
    /\ UNCHANGED <<bounded, submission, upload, parsed, posts, response, result,
                   queries, sleeps, hist, calls, offline, attrs, bags>>

\* line 74: one status query, answered by the backend with one of replies
QueryFrom(replies) ==
    /\ pc = "query"
    /\ bounded => Len(queries) < MaxPolls
    /\ \E r \in replies : response' = r
    /\ queries' = IF bounded THEN Append(queries, task_id) ELSE queries
    /\ emitted' = << >>
    /\ pc' = "handle"
    /\ UNCHANGED <<bounded, submission, upload, parsed, posts, task_id, last_progress,
                   result, sleeps, log, hist, calls, offline, attrs, bags>>

\* the backend keeps to its protocol
Query == QueryFrom(StatusReplies)

\* the backend answers with whatever JSON object
QueryAny == QueryFrom(AnyReplies)

PollOut(exit, exc, msg, data, prints, lp) ==
    [exit |-> exit, exc |-> exc, msg |-> msg, data |-> data,
     prints |-> prints, last_progress |-> lp]

\* mutant: the progress line is printed on every answered poll
ProgressChanged_Always(progress, lp) == TRUE

\* mutant: the progress line is printed only when progress has grown
ProgressChanged_Grown(progress, lp) == progress > lp

\* line 83
ProgressChanged(progress, lp) == progress # lp

\* mutant: every finished job is handed back
IsCompleted_AnyTerminal(status) == status \in {"completed", "failed", "error"}

\* line 87
IsCompleted(status) == status = "completed"

\* mutant: 'error' is not taken for a failure
IsFailed_OnlyFailed(status) == status = "failed"

\* mutant: whatever is not known to be running is a failure
IsFailed_NotRunning(status) ==
    status \notin {"queued", "pending", "in_progress", "processing"}

\* line 96
IsFailed(status) == status \in {"failed", "error"}

\* mutant: every status that is not terminal passes silently
IsRunning_Any(status) == TRUE

\* line 105
IsRunning(status) ==
    status \in {"queued", "pending", "in_progress", "processing"}

\* mutant: the default applies to an absent field only
ErrorMsg_AbsentOnly(data) == Get(data, "error", "Unknown error")

\* line 102
ErrorMsg(data) ==
    IF Truthy(Get(data, "error", NoneVal)) THEN data["error"]
    ELSE "Unknown error"

\* line 84: format(progress, '.1%') of a progress that is not a number
FormatError(progress) ==
    IF progress = NoneVal THEN "TypeError" ELSE "ValueError"

\* lines 74-108: the try block for the answer r, job id and retained progress lp;
\* a progress that is not a number differs from lp (line 83) and cannot be
\* formatted (line 84)
TryBody(r, id, lp) ==
    IF r.net = "down"
    THEN PollOut("raise", "ConnectionError", <<>>, << >>, << >>, lp)
    ELSE IF RaisesForStatus(r.code)
    THEN PollOut("raise", "HTTPError", <<>>, << >>, << >>, lp)
    ELSE IF "progress" \in DOMAIN OddFields(r)
    THEN PollOut("raise", FormatError(OddFields(r)["progress"]), <<>>, << >>,
                 << >>, lp)
    ELSE LET data == r.body
             status == Get(data, "status", NoneVal)
             progress == Get(data, "progress", 0)
             changed == ProgressChanged(progress, lp)
             said == IF changed
                     THEN <<Printed("Status", <<status, progress>>)>>
                     ELSE << >>
             lp1 == IF changed THEN progress ELSE lp
             ended == <<Printed("End time", NoneVal),
                        Printed("Total time", NoneVal)>>
         IN  IF IsCompleted(status)
             THEN PollOut("return", NoExc, <<>>, data,
                          said \o ended \o
                            <<Printed("Transcription completed!", NoneVal)>>,
                          lp1)
             ELSE IF IsFailed(status)
             THEN PollOut("raise", "RuntimeError", <<id, ErrorMsg(data)>>,
                          << >>, said \o ended, lp1)
             ELSE IF IsRunning(status)
             THEN PollOut("none", NoExc, <<>>, << >>, said, lp1)
             ELSE PollOut("none", NoExc, <<>>, << >>,
                          said \o <<Printed("Unknown status", status)>>, lp1)

\* mutant: a failed query makes the poller forget the progress it retained
Iteration_Reset(r, id, lp) ==
    LET out == TryBody(r, id, lp)
    IN  IF out.exit = "raise" /\ IsRequestException(out.exc)
        THEN PollOut("none", NoExc, <<>>, << >>,
                     out.prints \o <<Printed("Polling error", out.exc)>>, -1)
        ELSE out

\* lines 73-113: the try block and its except clause
Iteration(r, id, lp) ==
    LET out == TryBody(r, id, lp)
    IN  IF out.exit = "raise" /\ IsRequestException(out.exc)
        THEN PollOut("none", NoExc, <<>>, << >>,
                     out.prints \o <<Printed("Polling error", out.exc)>>,
                     out.last_progress)
        ELSE out

\* what a handled poll was, for the history
PollClass(r) ==
    IF r.net = "down" \/ r.code >= 400
    THEN [cls |-> "transport", progress |-> -1]
    ELSE IF "progress" \in DOMAIN OddFields(r)
    THEN [cls |-> "malformed", progress |-> -1]
    ELSE LET st == IF "status" \in DOMAIN r.body THEN r.body["status"]
                   ELSE NoneVal
             pr == IF "progress" \in DOMAIN r.body THEN r.body["progress"]
                   ELSE 0
         IN  [cls |-> CASE st = "completed" -> "completed"
                        [] st \in FailedStatuses -> "failed"
                        [] st \in RunningStatuses -> "running"
                        [] OTHER -> "unknown",
              progress |-> pr]

\* lines 75-113: the rest of one iteration, up to the sleep or the exit
Handle ==
    /\ pc = "handle"
    /\ LET out == Iteration(response, task_id, last_progress)
       IN  /\ last_progress' = out.last_progress
           /\ emitted' = out.prints
           /\ result' = IF out.exit = "return"
                        THEN [kind |-> "return", data |-> out.data]
                        ELSE IF out.exit = "raise"
                        THEN [kind |-> "raise", exc |-> out.exc, msg |-> out.msg]
                        ELSE result
           /\ pc' = IF out.exit = "return" THEN "returned"
                    ELSE IF out.exit = "raise" THEN "raised"
                    ELSE "sleep"
    /\ log' = IF bounded THEN log \o emitted' ELSE log
    /\ hist' = IF bounded THEN Append(hist, PollClass(response)) ELSE hist
    /\ UNCHANGED <<bounded, submission, upload, parsed, posts, task_id, response,
                   queries, sleeps, calls, offline, attrs, bags>>

\* mutant: the loop goes on without sleeping
Sleep_Skipped ==
    /\ pc = "sleep"
    /\ sleeps' = sleeps
    /\ emitted' = << >>
    /\ pc' = "query"
    /\ UNCHANGED <<bounded, submission, upload, parsed, posts, task_id, last_progress,
                   response, result, queries, log, hist, calls, offline, attrs, bags>>

\* line 115
Sleep ==
    /\ pc = "sleep"
    /\ sleeps' = IF bounded THEN Append(sleeps, attrs.POLL_INTERVAL)
                  ELSE sleeps
    /\ emitted' = << >>
    /\ pc' = "query"
    /\ UNCHANGED <<bounded, submission, upload, parsed, posts, task_id, last_progress,
                   response, result, queries, log, hist, calls, offline, attrs, bags>>

----------------------------------------------------------------------------
(* The specifications *)

InitRun ==
    /\ pc = "submit"
    /\ submission = [file |-> "none"]
    /\ upload = [kind |-> "none"]
    /\ parsed = FALSE
    /\ posts = 0
    /\ task_id = NoneVal
    /\ last_progress = -1
    /\ response = [net |-> "none"]
    /\ result = [kind |-> "none"]
    /\ emitted = << >>
    /\ queries = << >>
    /\ sleeps = << >>
    /\ log = << >>
    /\ hist = << >>
    /\ calls = 0
    /\ attrs = [API_SETTINGS |-> API_SETTINGS, POLL_INTERVAL |-> POLL_INTERVAL]
    /\ bags = << >>

\* no call of seconds_to_srt_time or save_transcription_as_srt is made
NoCall ==
    /\ call = [op |-> "none"]
    /\ ret = [kind |-> "none"]
    /\ files = << >>
    /\ environ = << >>

\* one pipeline run, no other instance beside it
Single == insts = << >>

Init == InitRun /\ NoCall /\ Single /\ bounded = TRUE

Next == Upload \/ StartPoll \/ Query \/ Handle \/ Sleep

\* every run up to MaxPolls status queries, with its history
Spec == Init /\ [][Next]_vars

\* the same program polling without a bound (no history is kept): each
\* request is answered, each sleep returns and the single thread of control
\* goes on to its next statement
LiveInit == InitRun /\ NoCall /\ Single /\ bounded = FALSE

LiveSpec ==
    /\ LiveInit /\ [][Next]_vars
    /\ WF_vars(Upload) /\ WF_vars(StartPoll)
    /\ WF_vars(Query) /\ WF_vars(Handle) /\ WF_vars(Sleep)

\* every run up to MaxPolls status queries against a backend that may
\* answer out of its protocol
WideNext == Upload \/ StartPoll \/ QueryAny \/ Handle \/ Sleep

WideSpec == Init /\ [][WideNext]_vars

\* up to MaxCalls calls of upload_and_get_task_id, one after the other, with
\* the same audio
SubmitNext == Upload \/ CallAgain

SubmitSpec == Init /\ [][SubmitNext]_vars

----------------------------------------------------------------------------
(* ExternalTranscriptionManager *)

\* lines 20-22: the file is posted and the JSON body of the answer is
\* returned, whatever the status of the answer
TranscribeBody(file, reply) ==
    IF file = "missing"
    THEN UploadOut("FileNotFoundError", 0, FALSE, << >>, NoneVal)
    ELSE IF reply.net = "down"
    THEN UploadOut("ConnectionError", 1, FALSE, << >>, NoneVal)
    ELSE UploadOut(NoExc, 1, TRUE, << >>, reply.body)

\* one call of transcribe_audio; what it returns is a JSON object (json),
\* not a handle (value)
Transcribe ==
    /\ pc = "submit"
    /\ \E file \in {"present", "missing"}, reply \in Replies(SubmitBodies) :
         LET out == TranscribeBody(file, reply)
         IN  /\ submission' = IF out.sent = 0 THEN [file |-> file]
                              ELSE [file |-> file, reply |-> reply]
             /\ upload' = IF out.exc = NoExc
                          THEN [kind |-> "return", json |-> out.value]
                          ELSE [kind |-> "raise", exc |-> out.exc]
             /\ parsed' = out.json
             /\ posts' = posts + out.sent
             /\ calls' = calls + 1
             /\ emitted' = out.prints
             /\ pc' = IF out.exc = NoExc THEN "transcribed"
                      ELSE "transcribe_failed"
    /\ UNCHANGED <<bounded, task_id, last_progress, response, result,
                   queries, sleeps, log, hist, offline, attrs, bags>>

\* lines 26-27: one GET, and the JSON body of the answer is returned,
\* whatever the status of the answer and of the job
RetrieveBody(r) ==
    IF r.net = "down"
    THEN [kind |-> "raise", exc |-> "ConnectionError", msg |-> <<>>]
    ELSE [kind |-> "return", data |-> r.body]

\* one call of retrieve_transcription(job_id)
Retrieve ==
    /\ pc = "transcribed"
    /\ \E job_id \in {"job-1", "job-2"}, r \in StatusReplies :
          /\ task_id' = job_id
          /\ response' = r
          /\ queries' = Append(queries, job_id)
          /\ result' = RetrieveBody(r)
          /\ pc' = IF RetrieveBody(r).kind = "return" THEN "returned"
                   ELSE "raised"
    /\ emitted' = << >>
    /\ UNCHANGED <<bounded, submission, upload, parsed, posts, last_progress,
                   sleeps, log, hist, calls, offline, attrs, bags>>

ExternalNext == Transcribe \/ Retrieve

\* a caller of ExternalTranscriptionManager: transcribe_audio, then
\* retrieve_transcription
ExternalSpec == Init /\ [][ExternalNext]_vars

----------------------------------------------------------------------------
(* Several pipeline instances, each in its own poll_for_result with its own
   job handle.  The steps of an instance are those of one run (Query, Handle,
   Sleep), on the locals of that instance. *)

Instances == {1, 2}

\* the job handle each instance polls
Handles == <<"job-1", "job-2">>

\* the answers the instances get
PairReplies ==
    {r \in StatusReplies :
        \/ r.net = "down"
        \/ /\ r.net = "up" /\ r.code = 200
           /\ r.body \in {[status |-> "processing"],
                          [status |-> "processing", progress |-> 3],
                          [status |-> "processing", progress |-> 7],
                          [status |-> "completed", progress |-> 7],
                          [status |-> "failed", progress |-> 3]}}

\* lines 69-71 of an instance: its locals as the loop is entered
Entered(id) ==
    [pc |-> "query", task_id |-> id, last_progress |-> -1,
     response |-> [net |-> "none"], result |-> [kind |-> "none"],
     log |-> <<Printed("Start time", NoneVal)>>, seen |-> << >>]

\* mutant: last_progress is one cell that all instances read
Retained_Shared(i, all) == all[1].last_progress

\* last_progress is a local of the call (line 69)
Retained(i, all) == all[i].last_progress

\* line 74 in instance i
InstQuery(i) ==
    /\ insts[i].pc = "query"
    /\ Len(insts[i].seen) < MaxPairPolls
    /\ \E r \in PairReplies :
          insts' = [insts EXCEPT ![i].response = r, ![i].pc = "handle"]
    /\ UNCHANGED <<pc, bounded, submission, upload, parsed, posts, task_id,
                   last_progress, response, result, emitted, queries, sleeps,
                   log, hist, calls, call, ret, files, environ,
                   attrs, bags>>

\* lines 75-113 in instance i
InstHandle(i) ==
    /\ insts[i].pc = "handle"
    /\ LET me == insts[i]
           out == Iteration(me.response, me.task_id, Retained(i, insts))
       IN  insts' = [insts EXCEPT
               ![i].last_progress = out.last_progress,
               ![i].log = me.log \o out.prints,
               ![i].seen = Append(me.seen, me.response),
               ![i].result =
                   IF out.exit = "return"
                   THEN [kind |-> "return", data |-> out.data]
                   ELSE IF out.exit = "raise"
                   THEN [kind |-> "raise", exc |-> out.exc, msg |-> out.msg]
                   ELSE me.result,
               ![i].pc = IF out.exit = "return" THEN "returned"
                         ELSE IF out.exit = "raise" THEN "raised"
                         ELSE "sleep"]
    /\ UNCHANGED <<pc, bounded, submission, upload, parsed, posts, task_id,
                   last_progress, response, result, emitted, queries, sleeps,
                   log, hist, calls, call, ret, files, environ,
                   attrs, bags>>

\* line 115 in instance i
InstSleep(i) ==
    /\ insts[i].pc = "sleep"
    /\ insts' = [insts EXCEPT ![i].pc = "query"]
    /\ UNCHANGED <<pc, bounded, submission, upload, parsed, posts, task_id,
                   last_progress, response, result, emitted, queries, sleeps,
                   log, hist, calls, call, ret, files, environ,
                   attrs, bags>>

PairInit ==
    /\ InitRun /\ NoCall /\ bounded = TRUE
    /\ insts = [i \in Instances |-> Entered(Handles[i])]

PairNext ==
    \E i \in Instances : InstQuery(i) \/ InstHandle(i) \/ InstSleep(i)

\* the instances' steps in every interleaving, up to MaxPairPolls status
\* queries each
PairSpec == PairInit /\ [][PairNext]_vars

----------------------------------------------------------------------------
(* Strings, where their characters matter, are sequences of one-character
   strings.  A float that holds a number of seconds is given by the whole
   number ms of milliseconds it was written with: the float is the double
   nearest to ms / 1000. *)

Chars == <<"0", "1", "2", "3", "4", "5", "6", "7", "8", "9">>

\* the decimal digits of a natural number
RECURSIVE Digits(_)
Digits(n) == IF n < 10 THEN <<Chars[n + 1]>>
             ELSE Digits(n \div 10) \o <<Chars[(n % 10) + 1]>>

RECURSIVE ZeroPad(_, _)
ZeroPad(s, width) == IF Len(s) >= width THEN s
                     ELSE ZeroPad(<<"0">> \o s, width)

\* f"{n:0<width>d}": the sign counts in the width
Format(n, width) == IF n < 0 THEN <<"-">> \o ZeroPad(Digits(-n), width - 1)
                    ELSE ZeroPad(Digits(n), width)

RECURSIVE Pow2(_)
Pow2(n) == IF n = 0 THEN 1 ELSE 2 * Pow2(n - 1)

\* 2^n modulo q
RECURSIVE Pow2Mod(_, _)
Pow2Mod(n, q) == IF n = 0 THEN 1 % q ELSE (2 * Pow2Mod(n - 1, q)) % q

RECURSIVE Log2Up(_, _, _)
Log2Up(a, b, e) == IF b * Pow2(e + 1) <= a THEN Log2Up(a, b, e + 1) ELSE e

RECURSIVE Log2Down(_, _, _)
Log2Down(a, b, n) == IF b > a * Pow2(n) THEN Log2Down(a, b, n + 1) ELSE -n

\* floor(log2(a / b)) for a, b > 0: the binary exponent of the double a / b
FloorLog2(a, b) == IF a >= b THEN Log2Up(a, b, 0) ELSE Log2Down(a, b, 0)

(* What line 122 loses in binary floating point.  With f = ms % 1000 the
   exact value of (seconds % 1) * 1000 is f, but seconds is the double
   nearest to ms / 1000, a multiple of ulp = 2^(ex - 52):
     r      the remainder of ms * 2^(52 - ex) by 1000, so that seconds is
            below ms / 1000 (by r * ulp / 1000) exactly when r is under the
            half, or at the half with an even quotient;
     then   seconds % 1 is exact, and its product by 1000 is f - r * ulp
            rounded to a double of the binade below f, which is f again
            only when r * ulp is at most half a unit of that binade
            (r <= 2^s); otherwise the product stays below f and int()
            gives f - 1.
   A multiple of 1/8 second is a double itself, and every operation of
   lines 119-122 is exact on it, whatever its sign: nothing is lost. *)
FractionLoss(ms) ==
    LET f == ms % 1000 IN
    IF ms % 125 = 0 THEN 0
    ELSE LET ex    == FloorLog2(ms, 1000)
             t     == ((ms % 2000) * Pow2Mod(52 - ex, 2000)) % 2000
             r     == t % 1000
             even  == ((t - r) \div 1000) % 2 = 0
             below == r # 0 /\ (r < 500 \/ (r = 500 /\ even))
             ef    == FloorLog2(f, 1)
             j     == IF f = Pow2(ef) THEN ef - 1 ELSE ef
             s     == j - ex - 1
         IN  IF below /\ ~(s >= 0 /\ r <= Pow2(s)) THEN 1 ELSE 0

\* int(seconds // 3600)
Hours(ms) == ms \div 3600000

\* mutant: the minutes of the whole duration
Minutes_OfTotal(ms) == ms \div 60000

\* int((seconds % 3600) // 60)
Minutes(ms) == (ms % 3600000) \div 60000

\* int(seconds % 60)
Secs(ms) == (ms % 60000) \div 1000

\* int((seconds % 1) * 1000)
Milliseconds(ms) == (ms % 1000) - FractionLoss(ms)

seconds_to_srt_time(seconds) ==
    Format(Hours(seconds), 2) \o <<":">> \o Format(Minutes(seconds), 2)
        \o <<":">> \o Format(Secs(seconds), 2)
        \o <<",">> \o Format(Milliseconds(seconds), 3)

\* the durations seconds_to_srt_time is applied to, in milliseconds
Pivots == {0, 1000, 1500, 10000, 60000, 3600000, 3661234, 86400000,
           360000000}

\* the negative durations: multiples of 1/8 second below 0, below minus one
\* minute and below minus one hour
NegativeInputs ==
    {0 - p - 125 * d : p \in {0, 60000, 3600000}, d \in 1..CodecWindow}

CodecInputs ==
    ({p + d : p \in Pivots, d \in (0 - CodecWindow)..CodecWindow} \cap Nat)
        \cup NegativeInputs

\* one call of seconds_to_srt_time
Stamp ==
    /\ call.op = "stamp" /\ ret.kind = "none"
    /\ ret' = [kind |-> "return", value |-> seconds_to_srt_time(call.seconds)]
    /\ UNCHANGED <<pc, bounded, submission, upload, parsed, posts, task_id,
                   last_progress, response, result, emitted, queries, sleeps,
                   log, hist, calls, call, files, insts, environ,
                   attrs, bags>>

CodecInit ==
    /\ InitRun /\ Single /\ bounded = TRUE
    /\ call \in [op : {"stamp"}, seconds : CodecInputs]
    /\ ret = [kind |-> "none"]
    /\ files = << >>
    /\ environ = << >>

CodecNext == Stamp

CodecSpec == CodecInit /\ [][CodecNext]_vars

----------------------------------------------------------------------------
(* save_transcription_as_srt.  The payload is a decoded JSON value: every
   Python value carries its type, and the file system is flat. *)

PyNone == [t |-> "none"]
PyStr(s) == [t |-> "str", s |-> s]
PyNum(ms) == [t |-> "num", ms |-> ms]
PyList(xs) == [t |-> "list", xs |-> xs]
PyDict(kv) == [t |-> "dict", kv |-> kv]

Whitespace == {" ", "\n", "\t"}

RECURSIVE LStrip(_)
LStrip(s) == IF s # << >> /\ Head(s) \in Whitespace THEN LStrip(Tail(s))
             ELSE s

RECURSIVE RStrip(_)
RStrip(s) == IF s # << >> /\ s[Len(s)] \in Whitespace
             THEN RStrip(SubSeq(s, 1, Len(s) - 1))
             ELSE s

\* mutant: the text is taken as it is
Strip_None(s) == s

\* str.strip()
Strip(s) == RStrip(LStrip(s))

IsPrefix(p, s) == Len(p) <= Len(s) /\ SubSeq(s, 1, Len(p)) = p

\* str.replace(old, new): every occurrence, left to right, not overlapping
RECURSIVE Replace(_, _, _)
Replace(s, old, new) ==
    IF s = << >> THEN s
    ELSE IF IsPrefix(old, s)
         THEN new \o Replace(SubSeq(s, Len(old) + 1, Len(s)), old, new)
         ELSE <<Head(s)>> \o Replace(Tail(s), old, new)

SrtSuffix == <<".", "s", "r", "t">>
RawSuffix == <<"_", "r", "a", "w", ".", "j", "s", "o", "n">>

\* output_path.replace('.srt', '_raw.json')
RawPath(output_path) == Replace(output_path, SrtSuffix, RawSuffix)

\* json.dump: the JSON document of a Python value
RECURSIVE JsonDump(_)
JsonDump(v) ==
    CASE v.t = "none" -> [j |-> "null"]
      [] v.t = "str"  -> [j |-> "string", chars |-> v.s]
      [] v.t = "num"  -> [j |-> "number", ms |-> v.ms]
      [] v.t = "list" ->
            [j |-> "array",
             items |-> [i \in 1..Len(v.xs) |-> JsonDump(v.xs[i])]]
      [] v.t = "dict" ->
            [j |-> "object",
             members |-> [k \in DOMAIN v.kv |-> JsonDump(v.kv[k])]]

TextFile(chars) == [kind |-> "text", chars |-> chars]
JsonFile(v) == [kind |-> "json", value |-> JsonDump(v)]

\* open(path, 'w') ... write ... close: the file is created or replaced
WriteFile(disk, path, content) == (path :> content) @@ disk

\* mutant: every list is a list of segments
IsSegmentList_AnyList(res) == res.t = "list"

\* isinstance(result, list) and result
IsSegmentList(res) == res.t = "list" /\ res.xs # << >>

Arrow == <<" ", "-", "-", ">", " ">>

\* f"{i}\n"
CueIndexLine(i) == Digits(i) \o <<"\n">>

\* mutant: the end stamp comes first
CueStampLine_EndFirst(start_time, end_time) ==
    seconds_to_srt_time(end_time) \o Arrow \o seconds_to_srt_time(start_time)
        \o <<"\n">>

\* f"{self.seconds_to_srt_time(start_time)} --> {...(end_time)}\n"
CueStampLine(start_time, end_time) ==
    seconds_to_srt_time(start_time) \o Arrow \o seconds_to_srt_time(end_time)
        \o <<"\n">>

\* f"{text}\n\n"
CueTextLines(text) == text \o <<"\n", "\n">>

(* The loop of lines 136-144 from segment i on, doc being what is written
   so far: segment.get raises AttributeError on a segment that is not a
   dict, .strip() raises AttributeError on a text that is not a string, and
   seconds_to_srt_time raises TypeError on an offset that is not a number,
   after the index line of the cue is written. *)
RECURSIVE WriteCues(_, _, _)
WriteCues(segments, i, doc) ==
    IF i > Len(segments) THEN [doc |-> doc, exc |-> NoExc]
    ELSE LET segment == segments[i] IN
         IF segment.t # "dict" THEN [doc |-> doc, exc |-> "AttributeError"]
         ELSE LET start_time == Get(segment.kv, "start", PyNum(0))
                  end_time   == Get(segment.kv, "end", PyNum(0))
                  raw        == Get(segment.kv, "text", PyStr(<< >>))
              IN
              IF raw.t # "str" THEN [doc |-> doc, exc |-> "AttributeError"]
              ELSE LET text == Strip(raw.s) IN
                   IF text = << >> THEN WriteCues(segments, i + 1, doc)
                   ELSE IF start_time.t # "num" \/ end_time.t # "num"
                        THEN [doc |-> doc \o CueIndexLine(i),
                              exc |-> "TypeError"]
                        ELSE WriteCues(segments, i + 1,
                                 doc \o CueIndexLine(i)
                                     \o CueStampLine(start_time.ms, end_time.ms)
                                     \o CueTextLines(text))

SaveOut(disk, prints, value) ==
    [files |-> disk, prints |-> prints, value |-> value]

save_transcription_as_srt(result_data, output_path, disk) ==
    LET res == Get(result_data.kv, "result", PyList(<< >>)) IN
    IF IsSegmentList(res)
    THEN LET w == WriteCues(res.xs, 1, << >>) IN
         SaveOut(WriteFile(disk, output_path, TextFile(w.doc)), << >>,
                 IF w.exc = NoExc THEN [kind |-> "return", value |-> TRUE]
                 ELSE [kind |-> "raise", exc |-> w.exc])
    ELSE SaveOut(WriteFile(disk, RawPath(output_path), JsonFile(result_data)),
                 <<Printed("Warning", "Unexpected result format")>>,
                 [kind |-> "return", value |-> FALSE])

\* one call of save_transcription_as_srt
Save ==
    /\ call.op = "save" /\ ret.kind = "none"
    /\ LET out == save_transcription_as_srt(call.result_data,
                                            call.output_path, files)
       IN  /\ files' = out.files
           /\ emitted' = out.prints
           /\ ret' = out.value
    /\ UNCHANGED <<pc, bounded, submission, upload, parsed, posts, task_id,
                   last_progress, response, result, queries, sleeps,
                   log, hist, calls, call, insts, environ, attrs, bags>>

(* The calls of save_transcription_as_srt that are made *)

Hi == <<"H", "i">>
Hello == <<"H", "e", "l", "l", "o">>

Segment(kv) == PyDict(kv)

Times(start, end) == ("start" :> PyNum(start)) @@ ("end" :> PyNum(end))

SegmentSamples ==
    { Segment(Times(0, 10000) @@ ("text" :> PyStr(Hello))),
      Segment(Times(0, 10000) @@ ("text" :> PyStr(<< >>))),
      Segment(Times(0, 10000) @@ ("text" :> PyStr(<<" ">>))),
      Segment(Times(1500, 10000) @@ ("text" :> PyStr(Hi))),
      Segment(Times(1500, 10000) @@ ("text" :> PyStr(<<" ">> \o Hi \o <<"\n">>))),
      Segment(Times(0, 10000)),
      Segment(Times(0, 10000) @@ ("text" :> PyNone)),
      Segment(("end" :> PyNum(10000)) @@ ("text" :> PyStr(Hi))),
      Segment(("start" :> PyNum(1500)) @@ ("text" :> PyStr(Hi))),
      Segment(<< >>),
      Segment(("start" :> PyNone) @@ ("end" :> PyNum(10000))
                  @@ ("text" :> PyStr(Hi))),
      Segment(Times(10000, 1500) @@ ("text" :> PyStr(Hi))),
      Segment(Times(0 - 1500, 10000) @@ ("text" :> PyStr(Hi))),
      PyStr(Hi) }

SegmentLists ==
    UNION {[1..n -> SegmentSamples] : n \in 1..MaxSegments}

\* what the 'result' field holds when it is there
ResultValues ==
    {PyNone, PyStr(Hi), PyDict("text" :> PyStr(Hi)), PyList(<< >>)}
        \cup {PyList(xs) : xs \in SegmentLists}

Completed == <<"c", "o", "m", "p", "l", "e", "t", "e", "d">>

Payloads ==
    {PyDict("status" :> PyStr(Completed))}
        \cup {PyDict(("status" :> PyStr(Completed)) @@ ("result" :> r)) :
                 r \in ResultValues}

OutputPaths ==
    { <<"o">> \o SrtSuffix,
      <<"o", ".", "t", "x", "t">>,
      <<"o">>,
      <<"o">> \o SrtSuffix \o SrtSuffix }

\* a subtitle document left at the output path by an earlier run
OldFile == TextFile(<<"o", "l", "d", "\n">>)

SrtInit ==
    /\ InitRun /\ Single /\ bounded = TRUE
    /\ files \in {<< >>} \cup {p :> OldFile : p \in OutputPaths}
    /\ call \in [op : {"save"}, result_data : Payloads,
                 output_path : OutputPaths, before : {files}]
    /\ call.output_path \in DOMAIN files \/ files = << >>
    /\ ret = [kind |-> "none"]
    /\ environ = << >>

SrtNext == Save

SrtSpec == SrtInit /\ [][SrtNext]_vars

----------------------------------------------------------------------------
(* config/loader.py: _convert_env_value.  The value of an environment
   variable is a string of characters; what it is converted to carries its
   Python type. *)

PyBool(b) == [t |-> "bool", b |-> b]
PyInt(n) == [t |-> "int", n |-> n]

\* a float, in thousandths
PyFloat(milli) == [t |-> "float", milli |-> milli]

\* str.lower()
Lower(s) ==
    LET Upper == <<"A", "B", "C", "D", "E", "F", "G", "H", "I", "J", "K", "L",
                   "M", "N", "O", "P", "Q", "R", "S", "T", "U", "V", "W", "X",
                   "Y", "Z">>
        Small == <<"a", "b", "c", "d", "e", "f", "g", "h", "i", "j", "k", "l",
                   "m", "n", "o", "p", "q", "r", "s", "t", "u", "v", "w", "x",
                   "y", "z">>
        LowerChar(c) == IF \E i \in 1..26 : Upper[i] = c
                        THEN Small[CHOOSE i \in 1..26 : Upper[i] = c]
                        ELSE c
    IN  [i \in 1..Len(s) |-> LowerChar(s[i])]

TrueStr == <<"t", "r", "u", "e">>
FalseStr == <<"f", "a", "l", "s", "e">>

IsDecimal(c) == \E i \in 1..10 : Chars[i] = c
DecimalOf(c) == (CHOOSE i \in 1..10 : Chars[i] = c) - 1

\* the sign of a numeral and what follows it
Unsigned(s) == IF s # << >> /\ s[1] \in {"+", "-"} THEN Tail(s) ELSE s
SignOf(s) == IF s # << >> /\ s[1] = "-" THEN 0 - 1 ELSE 1

\* decimal digits, where a single underscore may stand between two digits
IsDigitString(s) ==
    /\ s # << >>
    /\ \A i \in 1..Len(s) :
          \/ IsDecimal(s[i])
          \/ /\ s[i] = "_" /\ 1 < i /\ i < Len(s)
             /\ IsDecimal(s[i - 1]) /\ IsDecimal(s[i + 1])

\* the number that the digits of s write in a base, its underscores left out
RECURSIVE NumberOf(_, _)
NumberOf(s, base) ==
    LET d == SelectSeq(s, IsDecimal) IN
    IF d = << >> THEN 0
    ELSE base * NumberOf(SubSeq(d, 1, Len(d) - 1), base) + DecimalOf(d[Len(d)])

\* an unsigned numeral, split at its decimal point (point 0: it has none)
Numeral(u) ==
    LET point == IF \E i \in 1..Len(u) : u[i] = "."
                 THEN CHOOSE i \in 1..Len(u) : u[i] = "." ELSE 0
    IN  [point |-> point,
         whole |-> IF point = 0 THEN u ELSE SubSeq(u, 1, point - 1),
         fraction |-> IF point = 0 THEN << >>
                      ELSE SubSeq(u, point + 1, Len(u))]

\* the value of an unsigned numeral of at most three digits after the point,
\* in thousandths
Milli(u) ==
    1000 * NumberOf(Numeral(u).whole, 10)
        + NumberOf(SubSeq(SelectSeq(Numeral(u).fraction, IsDecimal)
                              \o <<"0", "0", "0">>, 1, 3), 10)

\* int(value): whitespace around an optionally signed digit string, or
\* ValueError (ok is FALSE)
ParseInt(value) ==
    LET s == Strip(value) IN
    [ok |-> IsDigitString(Unsigned(s)),
     n |-> SignOf(s) * NumberOf(Unsigned(s), 10)]

\* float(value), for a value without exponent that is not inf or nan:
\* whitespace around an optionally signed decimal numeral with digits before
\* the point, after it, or both, or ValueError (ok is FALSE)
ParseFloat(value) ==
    LET s == Strip(value)
        w == Numeral(Unsigned(s)).whole
        f == Numeral(Unsigned(s)).fraction
    IN  [ok |-> /\ w # << >> \/ f # << >>
                /\ w = << >> \/ IsDigitString(w)
                /\ f = << >> \/ IsDigitString(f),
         milli |-> SignOf(s) * Milli(Unsigned(s))]

ConfigurationError(error_code) ==
    [kind |-> "raise", exc |-> "ConfigurationError", error_code |-> error_code]

Returned(value) == [kind |-> "return", value |-> value]

_convert_env_value(value, section, field) ==
    IF field \in {"keep_temp_files"} \/ Lower(value) \in {TrueStr, FalseStr}
    THEN Returned(PyBool(Lower(value) = TrueStr))
    ELSE IF field \in {"timeout", "max_tokens", "silence_threshold",
                       "min_silence_duration"}
    THEN IF ParseInt(value).ok THEN Returned(PyInt(ParseInt(value).n))
         ELSE ConfigurationError("INVALID_ENV_VALUE_TYPE")
    ELSE IF field \in {"temperature"}
    THEN IF ParseFloat(value).ok
         THEN Returned(PyFloat(ParseFloat(value).milli))
         ELSE ConfigurationError("INVALID_ENV_VALUE_TYPE")
    ELSE Returned(PyStr(value))

\* lines 127-150, in the order of the dictionary
env_mappings ==
    << <<"WHISPER_BASE_URL", "whisper", "base_url">>,
       <<"WHISPER_MODEL", "whisper", "model">>,
       <<"WHISPER_LANGUAGE", "whisper", "language">>,
       <<"WHISPER_TIMEOUT", "whisper", "timeout">>,
       <<"YOUTUBE_AUDIO_QUALITY", "youtube", "audio_quality">>,
       <<"YOUTUBE_OUTPUT_FORMAT", "youtube", "output_format">>,
       <<"AI_PROVIDER", "ai_formatting", "provider">>,
       <<"AI_MODEL", "ai_formatting", "model">>,
       <<"AI_API_KEY", "ai_formatting", "api_key">>,
       <<"AI_MAX_TOKENS", "ai_formatting", "max_tokens">>,
       <<"AI_TEMPERATURE", "ai_formatting", "temperature">>,
       <<"OUTPUT_AUDIO_DIR", "output", "audio_dir">>,
       <<"OUTPUT_TRANSCRIPT_DIR", "output", "transcript_dir">>,
       <<"OUTPUT_SUMMARY_DIR", "output", "summary_dir">>,
       <<"OUTPUT_KEEP_TEMP_FILES", "output", "keep_temp_files">>,
       <<"AUDIO_SILENCE_THRESHOLD", "audio_processing", "silence_threshold">>,
       <<"AUDIO_MIN_SILENCE_DURATION", "audio_processing",
         "min_silence_duration">> >>

\* the values an environment variable is given
EnvValues ==
    { <<"t", "r", "u", "e">>, <<"T", "r", "u", "e">>,
      <<"F", "A", "L", "S", "E">>, <<"y", "e", "s">>,
      <<"3", "0">>, <<"-", "5">>, <<" ", "7", "\n">>, <<"1", "_", "0", "0", "0">>,
      <<"0", ".", "7">>, <<"1", ".">>, <<".", "5">>, <<"7", "x">>, <<"+">>,
      <<"1", "_">>, << >>, <<"s", "m", "a", "l", "l">>, <<" ", "e", "n">> }

\* one call of _convert_env_value
Convert ==
    /\ call.op = "convert" /\ ret.kind = "none"
    /\ ret' = _convert_env_value(call.value, call.section, call.field)
    /\ UNCHANGED <<pc, bounded, submission, upload, parsed, posts, task_id,
                   last_progress, response, result, emitted, queries, sleeps,
                   log, hist, calls, call, files, insts, environ,
                   attrs, bags>>

\* _convert_env_value is called as _apply_env_overrides calls it (line 161),
\* with a section and a field of env_mappings
ConvertInit ==
    /\ InitRun /\ Single /\ bounded = TRUE
    /\ \E v \in EnvValues, i \in DOMAIN env_mappings :
          call = [op |-> "convert", value |-> v,
                  section |-> env_mappings[i][2], field |-> env_mappings[i][3]]
    /\ ret = [kind |-> "none"]
    /\ files = << >>
    /\ environ = << >>

ConvertSpec == ConvertInit /\ [][Convert]_vars

----------------------------------------------------------------------------
(* config/loader.py: _apply_env_overrides.  A dictionary is a function from
   its keys to its values; the keys are names, spelled by Spelling. *)

\* the keys of the model's dictionaries, and how each is spelled
Spelling ==
    ("whisper" :> <<"w", "h", "i", "s", "p", "e", "r">>)
 @@ ("youtube" :> <<"y", "o", "u", "t", "u", "b", "e">>)
 @@ ("ai_formatting" :> <<"a", "i", "_", "f", "o", "r", "m", "a", "t", "t",
                          "i", "n", "g">>)
 @@ ("output" :> <<"o", "u", "t", "p", "u", "t">>)
 @@ ("audio_processing" :> <<"a", "u", "d", "i", "o", "_", "p", "r", "o", "c",
                             "e", "s", "s", "i", "n", "g">>)
 @@ ("model" :> <<"m", "o", "d", "e", "l">>)
 @@ ("timeout" :> <<"t", "i", "m", "e", "o", "u", "t">>)
 @@ ("custom" :> <<"c", "u", "s", "t", "o", "m">>)
 @@ ("_cache" :> <<"_", "c", "a", "c", "h", "e">>)
 @@ ("self" :> <<"s", "e", "l", "f">>)

\* key in container (line 157), for a dictionary, a list or a string; of
\* any other value 'in' cannot be asked
Contains(container, key) ==
    CASE container.t = "dict" -> key \in DOMAIN container.kv
      [] container.t = "list" ->
            \E i \in 1..Len(container.xs) :
                container.xs[i] = PyStr(Spelling[key])
      [] container.t = "str" ->
            \E k \in 1..(Len(container.s) + 1) :
                IsPrefix(Spelling[key],
                         SubSeq(container.s, k, Len(container.s)))

\* mutant: a value that is there already is kept
SetItem_Default(kv, key, value) == kv @@ (key :> value)

\* d[key] = value, for a dictionary d
SetItem(kv, key, value) == (key :> value) @@ kv

TypeError == [kind |-> "raise", exc |-> "TypeError"]

\* lines 154-162: one entry of env_mappings
OverrideOne(config_data, env, env_var, section, field) ==
    IF env_var \notin DOMAIN env
    THEN Returned(config_data)
    ELSE IF config_data.t \notin {"dict", "list", "str"}
    THEN TypeError
    ELSE IF ~Contains(config_data, section) /\ config_data.t # "dict"
    THEN TypeError
    ELSE LET kv == IF config_data.t # "dict" THEN << >>
                   ELSE IF ~Contains(config_data, section)
                   THEN SetItem(config_data.kv, section, PyDict(<< >>))
                   ELSE config_data.kv
             converted_value == _convert_env_value(env[env_var], section,
                                                   field)
         IN  IF converted_value.kind = "raise"
             THEN converted_value
             ELSE IF config_data.t # "dict" \/ kv[section].t # "dict"
             THEN TypeError
             ELSE Returned(PyDict(SetItem(kv, section,
                      PyDict(SetItem(kv[section].kv, field,
                                     converted_value.value)))))

\* lines 153-164: the entries of env_mappings from the i-th on
RECURSIVE OverrideFrom(_, _, _)
OverrideFrom(config_data, env, i) ==
    IF i > Len(env_mappings)
    THEN Returned(config_data)
    ELSE LET one == OverrideOne(config_data, env, env_mappings[i][1],
                                env_mappings[i][2], env_mappings[i][3])
         IN  IF one.kind = "raise" THEN one
             ELSE OverrideFrom(one.value, env, i + 1)

_apply_env_overrides(config_data, env) == OverrideFrom(config_data, env, 1)

\* the environments with at most n variables set: four variables of
\* env_mappings and one it does not know, each with one of five values
Environs(n) ==
    LET EnvNames == {"WHISPER_MODEL", "WHISPER_TIMEOUT", "AI_TEMPERATURE",
                     "OUTPUT_KEEP_TEMP_FILES", "HOME"}
        SetValues == { <<"t", "r", "u", "e">>, <<"3", "0">>, <<"0", ".", "7">>,
                       <<"s", "m", "a", "l", "l">>, <<"7", "x">> }
    IN  UNION {[names -> SetValues] :
                  names \in {S \in SUBSET EnvNames : Cardinality(S) <= n}}

\* what a configuration file holds, decoded
ConfigSamples ==
    { PyDict(<< >>),
      PyDict("whisper" :> PyDict(("model" :> PyStr(Hello))
                                     @@ ("timeout" :> PyInt(60)))),
      PyDict(("whisper" :> PyDict("model" :> PyStr(Hello)))
                 @@ ("output" :> PyDict("keep_temp_files" :> PyBool(FALSE)))
                 @@ ("custom" :> PyStr(Hi))),
      PyDict(("ai_formatting" :> PyDict("temperature" :> PyFloat(200)))
                 @@ ("self" :> PyInt(1))),
      PyDict("whisper" :> PyInt(5)),
      PyDict(("whisper" :> PyNone) @@ ("custom" :> PyList(<<PyStr(Hi)>>))),
      PyList(<<PyStr(Spelling["whisper"])>>),
      PyList(<<PyStr(Hi)>>),
      PyStr(Hi),
      PyInt(5) }

\* one call of _apply_env_overrides
Override ==
    /\ call.op = "override" /\ ret.kind = "none"
    /\ ret' = _apply_env_overrides(call.config_data, environ)
    /\ UNCHANGED <<pc, bounded, submission, upload, parsed, posts, task_id,
                   last_progress, response, result, emitted, queries, sleeps,
                   log, hist, calls, call, files, insts, environ,
                   attrs, bags>>

OverrideInit ==
    /\ InitRun /\ Single /\ bounded = TRUE
    /\ call \in [op : {"override"}, config_data : ConfigSamples]
    /\ ret = [kind |-> "none"]
    /\ files = << >>
    /\ environ \in Environs(MaxEnv)

OverrideSpec == OverrideInit /\ [][Override]_vars

----------------------------------------------------------------------------
(* config/loader.py: load_config and save_config.  A YAML document is held
   as the tree of its nodes (a scalar, a sequence of items or a mapping with
   members); a scalar node keeps its text and whether it is written plain or
   in quotes.  The texts of the model are made of letters, digits, spaces,
   line breaks and the characters - + . _ ~ only. *)

YamlScalar(style, text) == [y |-> "scalar", style |-> style, text |-> text]

\* what the resolver takes a plain scalar for: a boolean, null (empty, ~,
\* null), an integer in octal ([-+]?0[0-7_]+) or decimal
\* ([-+]?(0|[1-9][0-9_]*)) notation, a float ([-+]?[0-9][0-9_]*\.[0-9_]* or
\* \.[0-9][0-9_]*), or else a string
Resolve(text) ==
    LET Booleans ==
            { <<"y", "e", "s">>, <<"Y", "e", "s">>, <<"Y", "E", "S">>,
              <<"t", "r", "u", "e">>, <<"T", "r", "u", "e">>, <<"T", "R", "U", "E">>,
              <<"o", "n">>, <<"O", "n">>, <<"O", "N">> } \cup
            { <<"n", "o">>, <<"N", "o">>, <<"N", "O">>,
              <<"f", "a", "l", "s", "e">>, <<"F", "a", "l", "s", "e">>,
              <<"F", "A", "L", "S", "E">>,
              <<"o", "f", "f">>, <<"O", "f", "f">>, <<"O", "F", "F">> }
        u == Unsigned(text)
        IsRun(s) == \A i \in 1..Len(s) : IsDecimal(s[i]) \/ s[i] = "_"
        IsOctal ==
            /\ Len(u) >= 2 /\ u[1] = "0"
            /\ \A i \in 2..Len(u) :
                  u[i] = "_" \/ (IsDecimal(u[i]) /\ DecimalOf(u[i]) < 8)
        IsInt ==
            \/ u = <<"0">>
            \/ u # << >> /\ IsDecimal(u[1]) /\ u[1] # "0" /\ IsRun(Tail(u))
        IsFloat ==
            \/ /\ Numeral(u).point > 1
               /\ IsDecimal(u[1])
               /\ IsRun(Numeral(u).whole) /\ IsRun(Numeral(u).fraction)
            \/ /\ Len(text) >= 2 /\ text[1] = "." /\ IsDecimal(text[2])
               /\ IsRun(Tail(text))
    IN  CASE text \in Booleans -> "bool"
          [] text \in { << >>, <<"~">>, <<"n", "u", "l", "l">>,
                        <<"N", "u", "l", "l">>, <<"N", "U", "L", "L">> } ->
                "null"
          [] IsOctal -> "octal"
          [] IsInt -> "int"
          [] IsFloat -> "float"
          [] OTHER -> "str"

\* the Python value of a node: a scalar in quotes is a string, a plain one
\* is what its text resolves to, without the spaces around it
RECURSIVE Construct(_)
Construct(node) ==
    CASE node.y = "scalar" ->
            LET text == Strip(node.text)
                as == Resolve(text)
            IN  IF node.style # "plain" THEN PyStr(node.text)
                ELSE CASE as = "bool" -> PyBool(Lower(text) \in
                                    {<<"y", "e", "s">>, TrueStr, <<"o", "n">>})
                       [] as = "null" -> PyNone
                       [] as = "octal" ->
                            PyInt(SignOf(text) * NumberOf(Unsigned(text), 8))
                       [] as = "int" ->
                            PyInt(SignOf(text) * NumberOf(Unsigned(text), 10))
                       [] as = "float" ->
                            PyFloat(SignOf(text) * Milli(Unsigned(text)))
                       [] OTHER -> PyStr(text)
      [] node.y = "sequence" ->
            PyList([i \in 1..Len(node.items) |-> Construct(node.items[i])])
      [] node.y = "mapping" ->
            PyDict([k \in DOMAIN node.members |-> Construct(node.members[k])])

\* a file that is a YAML document; an empty file is a document with no node
YamlFile(doc) == [kind |-> "yaml", doc |-> doc]

\* yaml.safe_load(file): the value of the document, None for an empty one,
\* YAMLError for a text that is no YAML document
SafeLoad(content) ==
    IF content.kind # "yaml" THEN [kind |-> "raise", exc |-> "YAMLError"]
    ELSE IF content.doc.y = "empty" THEN Returned(PyNone)
    ELSE Returned(Construct(content.doc))

\* mutant: every string is written plain
ScalarStyle_Plain(text) == "plain"

\* a string is written plain only if it may be (it is not empty, has no space
\* at either end, no line break or tab, and is no '-' entry indicator) and is
\* read back as a string
ScalarStyle(text) ==
    LET PlainAllowed ==
            /\ text # << >>
            /\ text[1] # " " /\ text[Len(text)] # " "
            /\ \A i \in 1..Len(text) : text[i] \notin {"\n", "\t"}
            /\ ~(text[1] = "-" /\ (Len(text) = 1 \/ text[2] = " "))
    IN  IF PlainAllowed /\ Resolve(text) = "str" THEN "plain" ELSE "quoted"

\* repr(x) of a float x given in thousandths: the digits after the point
\* without the zeros at their end, the first one kept
FloatText(milli) ==
    LET a == IF milli < 0 THEN 0 - milli ELSE milli
        d == ZeroPad(Digits(a % 1000), 3)
        last == IF d[3] # "0" THEN 3 ELSE IF d[2] # "0" THEN 2 ELSE 1
    IN  (IF milli < 0 THEN <<"-">> ELSE << >>)
            \o Digits(a \div 1000) \o <<".">> \o SubSeq(d, 1, last)

\* yaml.dump: the node that represents a Python value
RECURSIVE YamlDump(_)
YamlDump(v) ==
    CASE v.t = "none" -> YamlScalar("plain", <<"n", "u", "l", "l">>)
      [] v.t = "bool" -> YamlScalar("plain", IF v.b THEN TrueStr ELSE FalseStr)
      [] v.t = "int" ->
            YamlScalar("plain", IF v.n < 0 THEN <<"-">> \o Digits(0 - v.n)
                                ELSE Digits(v.n))
      [] v.t = "float" -> YamlScalar("plain", FloatText(v.milli))
      [] v.t = "str" -> YamlScalar(ScalarStyle(v.s), v.s)
      [] v.t = "list" ->
            [y |-> "sequence",
             items |-> [i \in 1..Len(v.xs) |-> YamlDump(v.xs[i])]]
      [] v.t = "dict" ->
            [y |-> "mapping",
             members |-> [k \in DOMAIN v.kv |-> YamlDump(v.kv[k])]]

\* lines 84-111; a file of kind "denied" is there and cannot be opened
_load_yaml_file(config_path, disk) ==
    IF config_path \notin DOMAIN disk
    THEN ConfigurationError("CONFIG_FILE_NOT_FOUND")
    ELSE IF disk[config_path].kind = "denied"
    THEN ConfigurationError("CONFIG_FILE_READ_ERROR")
    ELSE LET config_data == SafeLoad(disk[config_path]) IN
         IF config_data.kind = "raise"
         THEN ConfigurationError("INVALID_YAML_SYNTAX")
         ELSE IF config_data.value.t = "none" THEN Returned(PyDict(<< >>))
         ELSE config_data

\* lines 26-28: Settings(**kwargs); what is not a mapping cannot be
\* unpacked, and 'self' is the name of a parameter already
NewSettings(kwargs) ==
    IF kwargs.t # "dict" \/ "self" \in DOMAIN kwargs.kv THEN TypeError
    ELSE Returned([t |-> "Settings", attributes |-> kwargs.kv])

\* line 31: not k.startswith('_')
IsPublic(k) == ~IsPrefix(<<"_">>, Spelling[k])

\* Settings.dict()
SettingsDict(settings) ==
    PyDict([k \in {a \in DOMAIN settings.attributes : IsPublic(a)} |->
               settings.attributes[k]])

\* line 35
DEFAULT_CONFIG_PATH ==
    <<"c", "o", "n", "f", "i", "g", "s", "/", "s", "e", "t", "t", "i", "n",
      "g", "s", ".", "y", "a", "m", "l">>

\* lines 50-69; config_path is None or a path
load_config(config_path, disk, env) ==
    LET path == IF config_path.t = "none" THEN DEFAULT_CONFIG_PATH
                ELSE config_path.s
        config_data == _load_yaml_file(path, disk)
    IN  IF config_data.kind = "raise" THEN config_data
        ELSE LET overridden == _apply_env_overrides(config_data.value, env)
             IN  IF overridden.kind = "raise" THEN overridden
                 ELSE IF NewSettings(overridden.value).kind = "raise"
                 THEN ConfigurationError("CONFIG_VALIDATION_FAILED")
                 ELSE NewSettings(overridden.value)

\* lines 218-234: the file is written, or cannot be opened for writing
save_config(settings, config_path, disk) ==
    IF config_path \in DOMAIN disk /\ disk[config_path].kind = "denied"
    THEN [files |-> disk,
          value |-> ConfigurationError("CONFIG_FILE_SAVE_ERROR")]
    ELSE [files |-> WriteFile(disk, config_path,
                              YamlFile(YamlDump(SettingsDict(settings)))),
          value |-> Returned(PyNone)]

\* a path other than the default one
CYaml == <<"c", ".", "y", "a", "m", "l">>

\* one call of load_config, alone or after the call of save_config
Load ==
    /\ call.op \in {"none", "save_config"}
    /\ \E config_path \in {PyNone, PyStr(DEFAULT_CONFIG_PATH), PyStr(CYaml)} :
          /\ call' = [op |-> "load_config", config_path |-> config_path,
                      after |-> call, after_ret |-> ret]
          /\ ret' = load_config(config_path, files, environ)
    /\ UNCHANGED <<pc, bounded, submission, upload, parsed, posts, task_id,
                   last_progress, response, result, emitted, queries, sleeps,
                   log, hist, calls, files, insts, environ, attrs, bags>>

\* load_config where there is no file, a file that cannot be opened, a text
\* ('a: [') that is no YAML document, an empty file, the scalar 'yes', or a
\* document of one of ConfigSamples
LoadInit ==
    /\ InitRun /\ Single /\ bounded = TRUE
    /\ call = [op |-> "none"]
    /\ ret = [kind |-> "none"]
    /\ files \in {<< >>}
          \cup {CYaml :> c :
                   c \in {[kind |-> "denied"],
                          TextFile(<<"a", ":", " ", "[">>),
                          YamlFile([y |-> "empty"]),
                          YamlFile(YamlScalar("plain", <<"y", "e", "s">>))}
                       \cup {YamlFile(YamlDump(v)) : v \in ConfigSamples}}
    /\ environ \in Environs(MaxEnv)

LoadSpec == LoadInit /\ [][Load]_vars

\* the Settings objects that are saved: Settings(**kwargs) for keywords
\* 'whisper', 'custom' and '_cache' given or not
SettingsSamples ==
    LET AttributeValues ==
            { PyNone, PyBool(TRUE), PyBool(FALSE), PyInt(30), PyInt(0 - 5),
              PyInt(0), PyFloat(700), PyFloat(5000), PyFloat(0 - 1250),
              PyFloat(1), PyStr(Hello), PyStr(TrueStr),
              PyStr(<<"Y", "e", "s">>), PyStr(<<"3", "0">>),
              PyStr(<<"0", "0", "7">>), PyStr(<<"1", "_">>),
              PyStr(<<"0", ".", "7">>), PyStr(<<".", "5">>), PyStr(<< >>),
              PyStr(<<"n", "u", "l", "l">>), PyStr(<<"~">>),
              PyStr(<<" ", "e", "n">>), PyStr(<<"-">>), PyStr(<<"-", "5">>),
              PyStr(<<"H", "i", "\n">>),
              PyStr(<<"d", "i", "s", "k", " ", "f", "u", "l", "l">>),
              PyDict(<< >>), PyDict("model" :> PyStr(<<"3", "0">>)),
              PyDict(("model" :> PyStr(Hello)) @@ ("timeout" :> PyInt(60))),
              PyList(<< >>),
              PyList(<<PyStr(TrueStr), PyBool(TRUE), PyInt(1)>>) }
        Keywords ==
            UNION {[names -> AttributeValues \cup {PyInt(1)}] :
                      names \in SUBSET {"whisper", "custom", "_cache"}}
    IN  {NewSettings(PyDict(kwargs)).value :
            kwargs \in {kw \in Keywords :
                           /\ "custom" \in DOMAIN kw =>
                                 kw["custom"] \in {PyStr(TrueStr), PyInt(30)}
                           /\ "_cache" \in DOMAIN kw =>
                                 kw["_cache"] = PyInt(1)}}

\* one call of save_config
SaveConfig ==
    /\ call.op = "none"
    /\ \E settings \in SettingsSamples,
          config_path \in {DEFAULT_CONFIG_PATH, CYaml} :
          LET out == save_config(settings, config_path, files) IN
          /\ call' = [op |-> "save_config", settings |-> settings,
                      config_path |-> config_path]
          /\ files' = out.files
          /\ ret' = out.value
    /\ UNCHANGED <<pc, bounded, submission, upload, parsed, posts, task_id,
                   last_progress, response, result, emitted, queries, sleeps,
                   log, hist, calls, insts, environ, attrs, bags>>

\* a configuration is saved and loaded again, where there was no file, a
\* file that cannot be opened, or an older configuration
RoundTripInit ==
    /\ InitRun /\ Single /\ bounded = TRUE
    /\ call = [op |-> "none"]
    /\ ret = [kind |-> "none"]
    /\ files \in {<< >>, CYaml :> [kind |-> "denied"],
                  CYaml :> YamlFile(YamlDump(PyDict("custom" :> PyStr(Hi))))}
    /\ environ \in Environs(MaxSaveEnv)

RoundTripSpec == RoundTripInit /\ [][SaveConfig \/ Load]_vars

----------------------------------------------------------------------------
(* One WhisperTranscriptionManager whose four methods are all called *)

\* the status queries are answered with one of four answers
ManagerQuery ==
    QueryFrom({ [net |-> "down"],
                [net |-> "up", code |-> 200,
                 body |-> [status |-> "processing", progress |-> 3]],
                [net |-> "up", code |-> 200,
                 body |-> [status |-> "completed", progress |-> 7]],
                [net |-> "up", code |-> 200,
                 body |-> [status |-> "failed", error |-> "disk full"]] })

\* the audio is submitted, once or again, the job is polled, and between
\* any two of these steps a timestamp is formatted or a payload is saved
ManagerInit ==
    /\ InitRun /\ Single /\ bounded = TRUE
    /\ call \in [op : {"stamp"}, seconds : {0, 3661234}]
          \cup [op : {"save"},
                result_data :
                    {PyDict("status" :> PyStr(Completed)),
                     PyDict(("status" :> PyStr(Completed))
                         @@ ("result" :> PyList(<<Segment(Times(0, 10000)
                                 @@ ("text" :> PyStr(Hello)))>>)))},
                output_path : {<<"o">> \o SrtSuffix},
                before : {<< >>}]
    /\ ret = [kind |-> "none"]
    /\ files = << >>
    /\ environ = << >>

ManagerSpec ==
    ManagerInit
        /\ [][Upload \/ CallAgain \/ StartPoll \/ ManagerQuery \/ Handle
                  \/ Sleep \/ Stamp \/ Save]_vars

----------------------------------------------------------------------------
(* Vocabulary of the properties *)

\* the status query was answered with a success status
Answered(r) == r.net = "up" /\ r.code \in 200..299
\* the status query failed in transport
TransportFailed(r) == r.net = "down" \/ (r.net = "up" /\ r.code \notin 200..299)
StatusOf(r) == IF "status" \in DOMAIN r.body THEN r.body["status"] ELSE NoneVal
ProgressOf(r) == IF "progress" \in DOMAIN r.body THEN r.body["progress"] ELSE 0
Reports(r, statuses) == Answered(r) /\ StatusOf(r) \in statuses

KnownStatuses == {"completed", "failed", "error",
                  "queued", "pending", "in_progress", "processing"}

Kinds(prints) == {prints[i].kind : i \in 1..Len(prints)}
Notified(prints) == "Status" \in Kinds(prints)
SelectKind(prints, kind) == SelectSeq(prints, LAMBDA x : x.kind = kind)

Stopped == pc \in {"returned", "raised"}
\* the latest answer has been handled
Handled == pc \in {"sleep", "returned", "raised"}

----------------------------------------------------------------------------
(* C1: poll_for_result returns exactly when a successfully answered status
   query reports 'completed', and what it returns is that query's payload;
   an answer with any other status, or none, never makes it return. *)
C1_ReturnsIffCompleted ==
    /\ pc = "returned" <=> result.kind = "return"
    /\ pc = "returned" =>
          /\ Reports(response, {"completed"})
          /\ result.data = response.body
    /\ Handled /\ Reports(response, {"completed"}) => pc = "returned"

C1_Witness ==
    /\ pc = "returned"
    /\ Len(hist) = 3
    /\ hist[1].cls = "unknown" /\ hist[2].cls = "transport"
    /\ "progress" \in DOMAIN result.data

(* C2 (as claimed): a 'failed' or 'error' answer makes poll_for_result raise
   the job-failed error on that very poll, with no further query and no
   sleep, and the error carries the answer's 'error' value whenever the
   answer has an error field, "Unknown error" when it has none. *)
C2_RaisesWithBackendMessage ==
    [][pc = "handle" /\ Reports(response, {"failed", "error"}) =>
          /\ pc' = "raised"
          /\ queries' = queries /\ sleeps' = sleeps
          /\ result' = [kind |-> "raise", exc |-> "RuntimeError",
                        msg |-> <<task_id,
                                  IF "error" \in DOMAIN response.body
                                  THEN response.body["error"]
                                  ELSE "Unknown error">>]]_vars

(* C2 (amended): a 'failed' or 'error' answer makes poll_for_result raise
   RuntimeError on that very poll (no further query, no sleep, not caught
   by the RequestException handler, and nothing happens afterwards); it
   carries the answer's 'error' value when that is a non-empty string, and
   "Unknown error" when the field is absent, null or empty. *)
C2_RaisesOnFailed ==
    [][/\ pc = "handle" /\ Reports(response, {"failed", "error"}) =>
            /\ pc' = "raised"
            /\ queries' = queries /\ sleeps' = sleeps
            /\ result' = [kind |-> "raise", exc |-> "RuntimeError",
                          msg |-> <<task_id,
                                    IF /\ "error" \in DOMAIN response.body
                                       /\ response.body["error"] \notin {NoneVal, ""}
                                    THEN response.body["error"]
                                    ELSE "Unknown error">>]
       /\ pc # "raised"]_vars

C2_Witness ==
    /\ pc = "raised"
    /\ result.msg[2] = "disk full"
    /\ Len(hist) = 2 /\ Len(queries) = 2 /\ Len(sleeps) = 1

(* C3: a status query that fails in transport (no answer, or a non-success
   HTTP status) never ends poll_for_result: the exception is caught and
   reported, the poller sleeps POLL_INTERVAL, and the next query asks for
   the same job id. *)
C3_TransportErrorRetried ==
    /\ [][/\ pc = "handle" /\ TransportFailed(response) =>
               /\ pc' = "sleep"
               /\ result' = [kind |-> "none"]
               /\ Kinds(emitted') = {"Polling error"}
          /\ pc = "sleep" =>
               /\ pc' = "query"
               /\ sleeps' = Append(sleeps, 5)
               /\ queries' = queries
          /\ pc = "query" =>
               /\ pc' = "handle"
               /\ queries' = Append(queries, upload.value)
               /\ task_id' = task_id]_vars
    /\ [](pc = "query" /\ Len(queries) < MaxPolls => ENABLED Query)

C3_Witness ==
    /\ pc = "handle"
    /\ Len(hist) = 2
    /\ hist[1].cls = "transport" /\ hist[2].cls = "transport"
    /\ queries = <<"job-2", "job-2", "job-2">>
    /\ sleeps = <<5, 5>>

(* C4: an answer whose status is none of completed, failed, error, queued,
   pending, in_progress, processing (an absent status included) is not
   terminal: poll_for_result neither returns nor raises, prints the
   unknown-status warning, sleeps and polls again. *)
C4_UnknownStatusContinues ==
    /\ [][/\ pc = "handle" /\ Answered(response)
                           /\ StatusOf(response) \notin KnownStatuses =>
               /\ pc' = "sleep"
               /\ result' = [kind |-> "none"]
               /\ "Unknown status" \in Kinds(emitted')
          /\ pc = "sleep" =>
               /\ pc' = "query"
               /\ sleeps' = Append(sleeps, 5)]_vars
    /\ [](pc = "query" /\ Len(queries) < MaxPolls => ENABLED Query)

C4_Witness ==
    /\ pc = "handle"
    /\ Len(hist) = 2
    /\ hist[1].cls = "unknown" /\ hist[2].cls = "unknown"
    /\ Len(SelectKind(log, "Unknown status")) = 2
    /\ Len(queries) = 3

\* the progress of the latest progress line printed, -1 when there is none
LastNotified(prints) ==
    LET n == SelectKind(prints, "Status")
    IN  IF n = << >> THEN -1 ELSE n[Len(n)].about[2]

(* C5: a successfully answered poll prints the progress line exactly when
   its progress differs from the retained last_progress, which is the
   progress of the latest poll that printed one (and of the preceding
   answered poll), so a poll repeating the preceding progress prints none. *)
C5_NotifiesIffProgressChanged ==
    [][pc = "handle" /\ Answered(response) =>
          /\ Notified(emitted') <=> ProgressOf(response) # last_progress
          /\ last_progress' = ProgressOf(response)
          /\ last_progress' = LastNotified(log')]_vars

C5_Witness ==
    /\ Handled
    /\ Len(hist) = 3
    /\ hist[1].progress = 3 /\ hist[2].progress = 3 /\ hist[3].progress = 7
    /\ Len(SelectKind(log, "Status")) = 2

\* the progress values of the answered polls so far, in order
ProgressSeq ==
    LET a == SelectSeq(hist, LAMBDA h : h.cls # "transport")
    IN  [i \in 1..Len(a) |-> a[i].progress]
Distinct(seq) == Cardinality({seq[i] : i \in 1..Len(seq)})
\* the number of maximal runs of equal consecutive values
Runs(seq) == Cardinality({i \in 1..Len(seq) : i = 1 \/ seq[i] # seq[i-1]})
\* no value comes back after a different one
NoRecurrence(seq) ==
    \A i, j \in 1..Len(seq) :
        i < j /\ seq[i] = seq[j] => \A k \in i..j : seq[k] = seq[i]
EndsCompleted == hist # << >> /\ hist[Len(hist)].cls = "completed"

(* C6 (as claimed): when the answers end in 'completed', the number of
   progress lines printed equals the number of distinct progress values
   among the answers, and poll_for_result returns the completed payload. *)
C6_OnePerDistinctProgress ==
    EndsCompleted =>
        /\ pc = "returned" /\ result.data = response.body
        /\ Len(SelectKind(log, "Status")) = Distinct(ProgressSeq)

(* C6 (amended): when the answers end in 'completed', poll_for_result
   prints one progress line for each maximal run of consecutive answers with
   the same progress (an absent progress counts as 0), which is one for each
   distinct value when no value comes back after a different one, and it
   returns the completed payload. *)
C6_OnePerProgressChange ==
    EndsCompleted =>
        /\ pc = "returned" /\ result.data = response.body
        /\ Len(SelectKind(log, "Status")) = Runs(ProgressSeq)
        /\ NoRecurrence(ProgressSeq) =>
              Len(SelectKind(log, "Status")) = Distinct(ProgressSeq)

C6_Witness ==
    /\ EndsCompleted
    /\ ProgressSeq = <<3, 3, 7>>
    /\ Len(SelectKind(log, "Status")) = 2

(* C7: once a status query has been answered successfully with a terminal
   status (completed, failed or error), poll_for_result eventually stops,
   returning or raising, whatever polls came before. *)
C7_TerminalAnswerTerminates ==
    (pc = "handle" /\ Reports(response, {"completed", "failed", "error"}))
        ~> Stopped

C7_Witness ==
    /\ pc = "raised"
    /\ Reports(response, {"error"})
    /\ ~Notified(emitted)
    /\ last_progress = 7

NonTerminalSoFar ==
    \A i \in 1..Len(hist) : hist[i].cls \in {"transport", "running", "unknown"}

(* C8: poll_for_result has no maximum poll count, retry count or timeout:
   after N polls that were all non-terminal answers or transport failures
   it has made N queries and is still polling (the next query can be
   made), and it stops only on a terminal status. *)
C8_NoPollLimit ==
    pc \in {"query", "handle", "sleep", "returned", "raised"} =>
        /\ NonTerminalSoFar =>
              /\ pc \in {"query", "handle", "sleep"}
              /\ Len(queries) = Len(hist) + (IF pc = "handle" THEN 1 ELSE 0)
              /\ Len(sleeps) = Len(hist) - (IF pc = "sleep" THEN 1 ELSE 0)
              /\ pc = "query" /\ Len(queries) < MaxPolls => ENABLED Query
        /\ Stopped => hist[Len(hist)].cls \in {"completed", "failed"}

C8_Witness ==
    /\ pc = "query"
    /\ Len(hist) = 3 /\ Len(queries) = 3
    /\ hist[1].cls = "transport" /\ hist[2].cls = "unknown"
    /\ hist[3].cls = "running"

(* C9 (as claimed): every run of poll_for_result that does not stop prints
   a signal again and again: no infinite suffix of polls is silent. *)
C9_NeverSilentForever ==
    []<>(Stopped \/ pc = "submit_failed" \/ emitted # << >>)

(* C9 (amended): every poll that fails in transport reports the error with
   the elapsed time, and a handled poll prints nothing exactly when it was
   answered with queued, pending, in_progress or processing and a progress
   equal to the retained one; a run of such polls is silent for as long as
   it lasts. *)
C9_SilentOnlyWhenUnchanged ==
    [][pc = "handle" =>
          /\ TransportFailed(response) => "Polling error" \in Kinds(emitted')
          /\ emitted' = << >> <=>
                /\ Reports(response, {"queued", "pending", "in_progress",
                                      "processing"})
                /\ ProgressOf(response) = last_progress]_vars

C9_Witness ==
    /\ pc = "sleep"
    /\ emitted = << >>
    /\ Reports(response, {"processing"})
    /\ last_progress = 3

NonSuccess(reply) == reply.net = "up" /\ reply.code \notin 200..299

(* C10: when the backend answers the submission with a non-success status,
   upload_and_get_task_id raises the HTTP (transport) error before the
   response body is parsed, and the pipeline run makes no status query. *)
C10_FailedSubmissionNeverPolls ==
    submission.file = "present" /\ NonSuccess(submission.reply) =>
        /\ upload = [kind |-> "raise", exc |-> "HTTPError"]
        /\ ~parsed
        /\ pc = "submit_failed"
        /\ task_id = NoneVal /\ queries = << >> /\ response = [net |-> "none"]
        /\ ~ENABLED Next

C10_Witness ==
    /\ pc = "submit_failed"
    /\ submission.file = "present"
    /\ submission.reply.net = "up"
    /\ submission.reply.code = 500
    /\ submission.reply.body = [identifier |-> "job-1"]

----------------------------------------------------------------------------
(* C11: when the submission is answered with a success status,
   upload_and_get_task_id returns the answer's 'identifier' when the answer
   has one (a non-empty value), and otherwise raises ValueError, which is
   not a transport error, at once and without a second request; it never
   returns an empty or absent handle. *)
C11_HandleOrProtocolError ==
    /\ "reply" \in DOMAIN submission /\ submission.reply.net = "up"
                                     /\ submission.reply.code \in 200..299 =>
           LET body == submission.reply.body
               has == /\ "identifier" \in DOMAIN body
                      /\ body["identifier"] \notin {NoneVal, ""}
           IN  /\ has => upload = [kind |-> "return",
                                   value |-> body["identifier"]]
               /\ ~has => /\ upload = [kind |-> "raise", exc |-> "ValueError"]
                          /\ pc = "submit_failed"
               /\ posts = 1 /\ calls = 1
    /\ upload.kind = "return" => upload.value \notin {NoneVal, ""}

C11_Witness ==
    /\ pc = "submit_failed"
    /\ upload = [kind |-> "raise", exc |-> "ValueError"]
    /\ submission.reply.code = 200
    /\ submission.reply.body = [identifier |-> ""]

(* C12 (as claimed): every call of upload_and_get_task_id sends exactly one
   submission request, whether it succeeds or fails: after k calls k
   requests have been sent. *)
C12_OneRequestPerCall == posts = calls

(* C12 (amended): every call of upload_and_get_task_id that can open its
   audio file sends exactly one submission request, whether the request
   succeeds or fails, and a call that cannot open the file sends none; there
   is no retry and no deduplication, so k calls with the same readable audio
   send k requests, each answered on its own. *)
C12_OneRequestPerReadableCall ==
    [][pc = "submit" =>
          /\ calls' = calls + 1
          /\ posts' = posts + (IF submission'.file = "present" THEN 1 ELSE 0)
          /\ "reply" \in DOMAIN submission' <=> submission'.file = "present"]_vars

C12_Witness ==
    /\ calls = MaxCalls /\ posts = calls
    /\ upload = [kind |-> "raise", exc |-> "HTTPError"]

IsDigit(c) == \E d \in 0..9 : Chars[d + 1] = c

DigitVal(c) == CHOOSE d \in 0..9 : Chars[d + 1] = c

\* the value of a sequence of digits
RECURSIVE Value(_)
Value(s) == IF s = << >> THEN 0
            ELSE 10 * Value(SubSeq(s, 1, Len(s) - 1)) + DigitVal(s[Len(s)])

AllDigits(s) == \A i \in 1..Len(s) : IsDigit(s[i])

\* s is HH:MM:SS,mmm with the field widths and ranges of a timestamp
WellFormedStamp(s) ==
    LET n == Len(s) IN
    /\ n >= 12
    /\ s[n - 3] = "," /\ s[n - 6] = ":" /\ s[n - 9] = ":"
    /\ AllDigits(SubSeq(s, 1, n - 10))
    /\ AllDigits(SubSeq(s, n - 8, n - 7)) /\ Value(SubSeq(s, n - 8, n - 7)) \in 0..59
    /\ AllDigits(SubSeq(s, n - 5, n - 4)) /\ Value(SubSeq(s, n - 5, n - 4)) \in 0..59
    /\ AllDigits(SubSeq(s, n - 2, n)) /\ Value(SubSeq(s, n - 2, n)) \in 0..999

Min(S) == CHOOSE x \in S : \A y \in S : x <= y

Max(S) == CHOOSE x \in S : \A y \in S : x >= y

\* a call of save_transcription_as_srt has ended
SaveDone == call.op = "save" /\ ret.kind # "none"

ReturnedTrue == SaveDone /\ ret = [kind |-> "return", value |-> TRUE]

ReturnedFalse == SaveDone /\ ret = [kind |-> "return", value |-> FALSE]

\* the payload has a 'result' field that is a list and is not empty
Recognized(payload) ==
    /\ "result" \in DOMAIN payload.kv
    /\ payload.kv["result"].t = "list"
    /\ Len(payload.kv["result"].xs) > 0

Unrecognized == SaveDone /\ ~Recognized(call.result_data)

SegmentsOf(payload) == payload.kv["result"].xs

TextOf(segment) ==
    IF /\ segment.t = "dict"
       /\ "text" \in DOMAIN segment.kv
       /\ segment.kv["text"].t = "str"
    THEN segment.kv["text"].s
    ELSE << >>

StartOf(segment) ==
    IF "start" \in DOMAIN segment.kv THEN segment.kv["start"].ms ELSE 0

EndOf(segment) ==
    IF "end" \in DOMAIN segment.kv THEN segment.kv["end"].ms ELSE 0

\* s without its leading and trailing whitespace
Trimmed(s) ==
    LET inked == {i \in 1..Len(s) : s[i] \notin Whitespace} IN
    IF inked = {} THEN << >> ELSE SubSeq(s, Min(inked), Max(inked))

NonBlank(segment) == Trimmed(TextOf(segment)) # << >>

\* the segments that have a text to show, in the order of the payload
Kept(segments) == SelectSeq(segments, NonBlank)

\* the lines of a text, each without its line feed
RECURSIVE SplitLines(_)
SplitLines(s) ==
    IF s = << >> THEN << >>
    ELSE LET feeds == {i \in 1..Len(s) : s[i] = "\n"}
             k == IF feeds = {} THEN Len(s) + 1 ELSE Min(feeds)
         IN  <<SubSeq(s, 1, k - 1)>> \o SplitLines(SubSeq(s, k + 1, Len(s)))

\* the subtitle document at the output path
Document == files[call.output_path].chars

\* a document read as cues of four lines
WholeCues(doc) == Len(SplitLines(doc)) % 4 = 0

Cues(doc) ==
    LET lines == SplitLines(doc) IN
    [c \in 1..(Len(lines) \div 4) |->
        [index  |-> lines[4 * c - 3],
         stamps |-> lines[4 * c - 2],
         text   |-> lines[4 * c - 1],
         blank  |-> lines[4 * c]]]

\* the output path holds what it held before the call, or nothing as before
OutputPathUntouched ==
    IF call.output_path \in DOMAIN call.before
    THEN /\ call.output_path \in DOMAIN files
         /\ files[call.output_path] = call.before[call.output_path]
    ELSE call.output_path \notin DOMAIN files

\* json.load: the Python value of a JSON document
RECURSIVE JsonLoad(_)
JsonLoad(d) ==
    CASE d.j = "null"   -> PyNone
      [] d.j = "string" -> PyStr(d.chars)
      [] d.j = "number" -> PyNum(d.ms)
      [] d.j = "array"  ->
            PyList([i \in 1..Len(d.items) |-> JsonLoad(d.items[i])])
      [] d.j = "object" ->
            PyDict([k \in DOMAIN d.members |-> JsonLoad(d.members[k])])

\* the files that hold the raw payload of the call
RawArtifacts ==
    {p \in DOMAIN files : /\ files[p].kind = "json"
                          /\ JsonLoad(files[p].value) = call.result_data}

IsSuffix(x, s) == Len(x) <= Len(s) /\ SubSeq(s, Len(s) - Len(x) + 1, Len(s)) = x

\* the k-th cue shows the k-th segment that has a text: its offsets, a
\* missing one taken as 0, and its trimmed text
CuesShowKeptSegments(doc, segments) ==
    /\ Len(Cues(doc)) = Len(Kept(segments))
    /\ \A c \in 1..Len(Cues(doc)) :
          /\ Cues(doc)[c].stamps =
                 seconds_to_srt_time(StartOf(Kept(segments)[c])) \o Arrow
                     \o seconds_to_srt_time(EndOf(Kept(segments)[c]))
          /\ Cues(doc)[c].text = Trimmed(TextOf(Kept(segments)[c]))

(* C13: save_transcription_as_srt takes the payload as recognized exactly
   when its 'result' field exists, is a list and is not empty; when the
   field is absent, not a list or an empty list it returns False and
   produces no subtitle document, not even an empty one. *)
C13_RecognizedIffSegmentList ==
    SaveDone =>
        /\ Recognized(call.result_data) <=> ~ReturnedFalse
        /\ ~Recognized(call.result_data) =>
               \A p \in DOMAIN files :
                   files[p].kind = "text" =>
                       p \in DOMAIN call.before /\ files[p] = call.before[p]

C13_Witness ==
    /\ ReturnedFalse
    /\ "result" \in DOMAIN call.result_data.kv
    /\ call.result_data.kv["result"] = PyList(<< >>)
    /\ call.output_path \in DOMAIN call.before
    /\ RawArtifacts # {}

(* C14: on an unrecognized payload save_transcription_as_srt returns False
   without raising, neither creates nor modifies the file at the intended
   output path, and persists the whole raw payload unmodified: decoding the
   artifact gives the payload of the call. *)
C14_FallbackLeavesOutputPath ==
    Unrecognized =>
        /\ ReturnedFalse
        /\ OutputPathUntouched
        /\ RawArtifacts # {}

(* C15: for every output path, with '.srt' in it once, never or more than
   once, the raw-payload artifact is written at a path that differs from the
   output path and is tagged as raw fallback, so that it never occupies the
   path of the subtitle document. *)
C15_FallbackPathDistinct ==
    Unrecognized =>
        /\ \A p \in RawArtifacts : p # call.output_path
        /\ \E p \in RawArtifacts : IsSuffix(RawSuffix, p)

(* C16: for a recognized payload, decoding the segments never raises: a
   missing 'start' or 'end' is taken as 0, a missing 'text' as the empty
   string, a text is trimmed, and only the check of the top-level shape can
   make the decoding fail. *)
C16_OnlyShapeCheckFails ==
    SaveDone /\ Recognized(call.result_data) =>
        /\ ReturnedTrue
        /\ CuesShowKeptSegments(Document, SegmentsOf(call.result_data))

(* C17: in every subtitle document written by save_transcription_as_srt the
   cues are numbered again: a document of k cues carries the indices
   1, 2, ..., k in this order, whatever segments without text were dropped
   before or between them. *)
C17_IndicesRenumbered ==
    ReturnedTrue =>
        \A c \in 1..Len(Cues(Document)) : Cues(Document)[c].index = Digits(c)

(* C18: save_transcription_as_srt emits one cue for each segment whose
   trimmed text is not empty and none for a segment whose text is empty or
   whitespace only: the number of cues is the number of segments that have a
   text, and never more than the number of segments. *)
C18_OneCuePerNonBlankSegment ==
    ReturnedTrue =>
        /\ WholeCues(Document)
        /\ Len(Cues(Document)) = Len(Kept(SegmentsOf(call.result_data)))
        /\ Len(Cues(Document)) <= Len(SegmentsOf(call.result_data))

C18_Witness ==
    /\ ReturnedTrue
    /\ Len(SegmentsOf(call.result_data)) = 2
    /\ TextOf(SegmentsOf(call.result_data)[1]) = <<" ">>
    /\ TextOf(SegmentsOf(call.result_data)[2]) = <<" ">> \o Hi \o <<"\n">>
    /\ Len(Cues(Document)) = 1

(* C19: each cue is four lines in this order: a line with its index, the
   line '<start> --> <end>' with both stamps made by seconds_to_srt_time,
   the trimmed text, and an empty line; the cues are in the order of their
   segments in the payload; and the list of the one segment (start 0.0,
   end 10.0, text Hello) gives exactly the document '1',
   '00:00:00,000 --> 00:00:10,000', 'Hello', ''. *)
C19_CueRendering ==
    ReturnedTrue =>
        /\ WholeCues(Document)
        /\ CuesShowKeptSegments(Document, SegmentsOf(call.result_data))
        /\ \A c \in 1..Len(Cues(Document)) :
              /\ AllDigits(Cues(Document)[c].index)
              /\ Value(Cues(Document)[c].index) >= 1
              /\ Cues(Document)[c].blank = << >>
        /\ SegmentsOf(call.result_data) =
               <<PyDict(Times(0, 10000) @@ ("text" :> PyStr(Hello)))>> =>
                   Document = <<"1", "\n">>
                       \o <<"0", "0", ":", "0", "0", ":", "0", "0", ",",
                            "0", "0", "0">>
                       \o <<" ", "-", "-", ">", " ">>
                       \o <<"0", "0", ":", "0", "0", ":", "1", "0", ",",
                            "0", "0", "0">>
                       \o <<"\n">> \o Hello \o <<"\n", "\n">>

C19_Witness ==
    /\ ReturnedTrue
    /\ Len(Cues(Document)) = 2
    /\ StartOf(SegmentsOf(call.result_data)[1]) = 1500
    /\ StartOf(SegmentsOf(call.result_data)[2]) = 0
    /\ Cues(Document)[1].text = Hi
    /\ Cues(Document)[2].text = Hello

(* C20: for every non-negative whole number of milliseconds, 24 hours and
   100 hours and more included, seconds_to_srt_time returns a string
   HH:MM:SS,mmm where HH has at least two digits, MM and SS have exactly two
   digits and a value in 0..59, and mmm has exactly three digits (a value in
   0..999). *)
C20_StampWellFormed ==
    call.op = "stamp" /\ call.seconds >= 0 /\ ret.kind = "return" =>
        WellFormedStamp(ret.value)

C20_Witness ==
    /\ call.op = "stamp" /\ call.seconds = 360000000
    /\ ret.kind = "return"
    /\ ret.value = <<"1", "0", "0", ":", "0", "0", ":", "0", "0", ",",
                     "0", "0", "0">>

\* the whole milliseconds a well-formed timestamp stands for
StampMs(s) ==
    LET n == Len(s) IN
    Value(SubSeq(s, 1, n - 10)) * 3600000 + Value(SubSeq(s, n - 8, n - 7)) * 60000
        + Value(SubSeq(s, n - 5, n - 4)) * 1000 + Value(SubSeq(s, n - 2, n))

(* C21: seconds_to_srt_time truncates to the millisecond and never rounds:
   for s >= 0 the fields satisfy HH*3600000 + MM*60000 + SS*1000 + mmm =
   floor(s * 1000); 3661.234 gives "01:01:01,234" and 0 gives
   "00:00:00,000". *)
C21_TruncatesToMillisecond ==
    call.op = "stamp" /\ call.seconds >= 0 /\ ret.kind = "return" =>
        /\ WellFormedStamp(ret.value)
        /\ StampMs(ret.value) = call.seconds
        /\ call.seconds = 3661234 =>
               ret.value = <<"0", "1", ":", "0", "1", ":", "0", "1", ",",
                             "2", "3", "4">>
        /\ call.seconds = 0 =>
               ret.value = <<"0", "0", ":", "0", "0", ":", "0", "0", ",",
                             "0", "0", "0">>

(* C22: seconds_to_srt_time fails on negative input only, and a negative
   input is rejected (the call raises) or clamped (the call returns the
   stamp of 0): no timestamp with a negative or malformed field is ever
   returned. *)
C22_NegativeRejectedOrClamped ==
    call.op = "stamp" /\ ret.kind # "none" =>
        /\ call.seconds >= 0 => ret.kind = "return"
        /\ call.seconds < 0 =>
               \/ ret.kind = "raise"
               \/ ret.value = seconds_to_srt_time(0)
        /\ ret.kind = "return" => WellFormedStamp(ret.value)

\* the locals of a poll_for_result that runs alone on job id and gets the
\* answers seen, one after the other
RECURSIVE AloneAfter(_, _)
AloneAfter(id, seen) ==
    IF seen = << >> THEN Entered(id)
    ELSE LET was == AloneAfter(id, SubSeq(seen, 1, Len(seen) - 1))
             r   == seen[Len(seen)]
             out == Iteration(r, id, was.last_progress)
         IN  [pc |-> IF out.exit = "return" THEN "returned"
                     ELSE IF out.exit = "raise" THEN "raised"
                     ELSE "sleep",
              task_id |-> id,
              last_progress |-> out.last_progress,
              response |-> r,
              result |-> IF out.exit = "return"
                         THEN [kind |-> "return", data |-> out.data]
                         ELSE IF out.exit = "raise"
                         THEN [kind |-> "raise", exc |-> out.exc,
                               msg |-> out.msg]
                         ELSE was.result,
              log |-> was.log \o out.prints,
              seen |-> seen]

(* C23: two pipeline instances that poll different job handles side by side
   share no mutable state: in every interleaving of their steps a step of
   one instance leaves the other's locals as they are, and the
   notifications, the retained last progress and the outcome of each
   instance are those of a run that gets the same answers alone. *)
C23_InstancesIndependent ==
    /\ [](\A i \in Instances :
             LET alone == AloneAfter(Handles[i], insts[i].seen) IN
             /\ insts[i].log = alone.log
             /\ insts[i].last_progress = alone.last_progress
             /\ insts[i].result = alone.result
             /\ insts[i].task_id = Handles[i])
    /\ [][\A i, j \in Instances :
             insts'[i] # insts[i] /\ j # i => insts'[j] = insts[j]]_vars

C23_Witness ==
    /\ insts # << >>
    /\ insts[1].pc = "handle" /\ insts[2].pc = "handle"
    /\ Len(insts[1].seen) = 1 /\ Len(insts[2].seen) = 1
    /\ insts[1].last_progress = 3 /\ insts[2].last_progress = 7
    /\ insts[1].response.net = "up" /\ insts[1].response.body["status"] = "completed"
    /\ insts[2].response.net = "down"

(* C24: in poll_for_result exactly one sleep of the poll interval (5)
   separates two consecutive status queries; there is no sleep before the
   first query and none after the query that sees a terminal status, so a
   first poll that sees 'completed' returns after one query and no sleep. *)
C24_OneSleepBetweenQueries ==
    /\ [](/\ \A i \in 1..Len(sleeps) : sleeps[i] = 5
          /\ pc \in {"submit", "submitted", "submit_failed"} =>
                 queries = << >> /\ sleeps = << >>
          /\ pc = "query" => Len(sleeps) = Len(queries)
          /\ pc \in {"handle", "sleep", "returned", "raised"} =>
                 Len(sleeps) = Len(queries) - 1)
    /\ [][/\ ~Stopped
          /\ Len(queries') > Len(queries) => sleeps' = sleeps
          /\ Len(sleeps') > Len(sleeps) => queries' = queries]_vars

C24_Witness ==
    /\ pc = "returned"
    /\ Len(queries) = 1 /\ sleeps = << >>
    /\ Reports(response, {"completed"})

\* the answered polls k before the latest one with nothing but failed
\* queries, and at least one, between it and the latest
AcrossFailures ==
    {k \in 1..(Len(hist) - 2) :
        /\ hist[k].cls # "transport"
        /\ \A m \in (k + 1)..(Len(hist) - 1) : hist[m].cls = "transport"}

(* C25: a poll that fails in transport leaves the poller's state as it was:
   the retained last progress and the job id are not modified, so when the
   next answered poll reports the progress of the last answered poll before
   the failure, no progress notification is emitted. *)
C25_TransportFailureKeepsState ==
    /\ [][pc = "handle" /\ TransportFailed(response) =>
             /\ last_progress' = last_progress
             /\ task_id' = task_id
             /\ pc' = "sleep"]_vars
    /\ [](Handled /\ hist # << >> /\ hist[Len(hist)].cls # "transport" =>
             \A k \in AcrossFailures :
                 hist[k].progress = hist[Len(hist)].progress =>
                     ~Notified(emitted))

C25_Witness ==
    /\ pc = "sleep" /\ Len(hist) = 3
    /\ hist[1] = [cls |-> "running", progress |-> 3]
    /\ hist[2].cls = "transport"
    /\ hist[3] = [cls |-> "running", progress |-> 3]
    /\ emitted = << >>
    /\ last_progress = 3

(* C26: poll_for_result leaves its loop in two ways only, returning on
   'completed' or raising the job-failed error on 'failed' / 'error': no
   answered status query of any other content, a progress that is null or
   not a number or an absent status included, makes it stop or raise
   another error. *)
C26_OnlyTwoExits ==
    /\ pc = "returned" => Reports(response, {"completed"})
    /\ pc = "raised" =>
           /\ result.exc = "RuntimeError"
           /\ Reports(response, FailedStatuses)

\* the progress of the latest answered poll before the one just handled, the
\* sentinel when there is none
ProgressBefore ==
    LET earlier == {k \in 1..(Len(hist) - 1) : hist[k].cls # "transport"}
    IN  IF earlier = {} THEN -1
        ELSE hist[CHOOSE k \in earlier : \A m \in earlier : m <= k].progress

(* C27: the first answered poll of poll_for_result always emits a progress
   notification, whatever its progress in [0,1] (no progress field counts
   as 0), because the retained progress starts at -1; and on a terminal poll
   whose progress changed the notification is emitted before the loop is
   left. *)
C27_FirstPollNotifies ==
    Handled /\ hist # << >> /\ hist[Len(hist)].cls # "transport" =>
        /\ ProgressBefore = -1 =>
               /\ emitted # << >>
               /\ emitted[1] = Printed("Status", <<StatusOf(response),
                                                   ProgressOf(response)>>)
               /\ last_progress = ProgressOf(response)
        /\ Stopped /\ ProgressOf(response) # ProgressBefore =>
               /\ Len(emitted) >= 2
               /\ emitted[1].kind = "Status"
               /\ emitted[2].kind = "End time"

C27_Witness ==
    /\ pc = "returned" /\ Len(hist) = 2
    /\ hist[1].cls = "transport"
    /\ "progress" \notin DOMAIN response.body
    /\ emitted[1] = Printed("Status", <<"completed", 0>>)
    /\ last_progress = 0

(* C29: ExternalTranscriptionManager and WhisperTranscriptionManager
   implement one interface with the same observable behaviour: submit fails
   on a backend status that is not a success and yields a job handle
   otherwise, and poll(handle) yields a terminal payload only, never the
   snapshot of a status that is not terminal. *)
C29_OneInterface ==
    /\ pc # "submit" /\ "reply" \in DOMAIN submission
                     /\ NonSuccess(submission.reply) => upload.kind = "raise"
    /\ upload.kind = "return" =>
           "value" \in DOMAIN upload /\ Truthy(upload.value)
    /\ result.kind = "return" => Reports(response, {"completed"})

\* every segment is an object whose text is missing, empty or whitespace
AllBlank(segments) ==
    \A i \in 1..Len(segments) :
        /\ segments[i].t = "dict"
        /\ "text" \in DOMAIN segments[i].kv => segments[i].kv["text"].t = "str"
        /\ ~NonBlank(segments[i])

(* C28: save_transcription_as_srt returns True exactly when the payload is
   recognized, however many cues it writes: a recognized payload whose
   segments all have an empty or whitespace-only text gives a subtitle
   document of no cue, True, and no raw-payload artifact. *)
C28_TrueIffRecognized ==
    SaveDone =>
        /\ ReturnedTrue <=> Recognized(call.result_data)
        /\ Recognized(call.result_data)
             /\ AllBlank(SegmentsOf(call.result_data)) =>
               /\ ReturnedTrue
               /\ Document = << >>
               /\ \A p \in DOMAIN files : files[p].kind # "json"

\* where the arrow of a timestamp line begins
ArrowAt(line) ==
    Min({k \in 1..Len(line) : IsPrefix(Arrow, SubSeq(line, k, Len(line)))})

StartStamp(line) == SubSeq(line, 1, ArrowAt(line) - 1)

EndStamp(line) == SubSeq(line, ArrowAt(line) + Len(Arrow), Len(line))

(* C30: every cue of a written subtitle document has a start offset that is
   not negative and an end offset that is not before its start, for every
   recognized payload, segments with missing or out-of-order start / end
   included. *)
C30_CueOffsetsOrdered ==
    ReturnedTrue =>
        \A c \in 1..Len(Cues(Document)) :
            LET line == Cues(Document)[c].stamps IN
            /\ WellFormedStamp(StartStamp(line))
            /\ WellFormedStamp(EndStamp(line))
            /\ StampMs(StartStamp(line)) <= StampMs(EndStamp(line))

----------------------------------------------------------------------------
(* Vocabulary of the configuration claims *)

LoadDone == call.op = "load_config"

\* the path load_config reads
LoadedPath == IF call.config_path.t = "none" THEN DEFAULT_CONFIG_PATH
              ELSE call.config_path.s

\* the entries of env_mappings whose variable is set
SetEntries == {i \in DOMAIN env_mappings : env_mappings[i][1] \in DOMAIN environ}

(* C31: every failure of load_config is raised as ConfigurationError (missing
   file, unreadable file, invalid YAML, a top level or an overridden section
   that is not a mapping, an invalid environment value, settings that cannot
   be constructed), and a missing file is reported with the error code
   CONFIG_FILE_NOT_FOUND, under no other code. *)
C31_FailuresAreConfigurationErrors ==
    LoadDone =>
        /\ ret.kind = "raise" => ret.exc = "ConfigurationError"
        /\ LoadedPath \notin DOMAIN files =>
               ret = ConfigurationError("CONFIG_FILE_NOT_FOUND")

OverrideDone == call.op = "override" /\ ret.kind # "none"

\* the entries of env_mappings that are set and write section.field
WritersOf(section, field) ==
    {i \in SetEntries :
        env_mappings[i][2] = section /\ env_mappings[i][3] = field}

\* the fields of a section of a configuration, none if it is no mapping
FieldsOf(config, section) ==
    IF config.t = "dict" /\ section \in DOMAIN config.kv
                         /\ config.kv[section].t = "dict"
    THEN DOMAIN config.kv[section].kv ELSE {}

SectionsOf(config) == IF config.t = "dict" THEN DOMAIN config.kv ELSE {}

\* the sections that a set variable writes into
WrittenSections == {env_mappings[i][2] : i \in SetEntries}

(* C32: when _apply_env_overrides returns, for every mapped variable that is
   set config[section][field] is the converted value of the variable,
   whatever the file held there and whether the section was there or not,
   and every section and field that no set variable is mapped to is as it
   was in the file. *)
C32_EnvironmentTakesPrecedence ==
    OverrideDone /\ ret.kind = "return" =>
        LET old == call.config_data
            new == ret.value
        IN  /\ \A i \in SetEntries :
                  LET env_var == env_mappings[i][1]
                      section == env_mappings[i][2]
                      field == env_mappings[i][3]
                  IN  /\ field \in FieldsOf(new, section)
                      /\ Returned(new.kv[section].kv[field]) =
                             _convert_env_value(environ[env_var], section,
                                                field)
            /\ SetEntries = {} => new = old
            /\ SectionsOf(new) = SectionsOf(old) \cup WrittenSections
            /\ \A s \in SectionsOf(new) \ WrittenSections :
                  new.kv[s] = old.kv[s]
            /\ \A s \in WrittenSections :
                  /\ FieldsOf(new, s) =
                         FieldsOf(old, s)
                             \cup {env_mappings[i][3] : i \in
                                      {j \in SetEntries :
                                          env_mappings[j][2] = s}}
                  /\ \A f \in FieldsOf(new, s) :
                        WritersOf(s, f) = {} =>
                            new.kv[s].kv[f] = old.kv[s].kv[f]

\* a file value is replaced, a section is created, and what no variable is
\* mapped to stays
C32_Witness ==
    /\ OverrideDone /\ ret.kind = "return"
    /\ DOMAIN environ = {"WHISPER_MODEL", "AI_TEMPERATURE"}
    /\ call.config_data.t = "dict"
    /\ DOMAIN call.config_data.kv = {"whisper", "output", "custom"}
    /\ call.config_data.kv["whisper"].kv["model"] = PyStr(Hello)
    /\ ret.value.kv["whisper"].kv["model"] = PyStr(<<"s", "m", "a", "l", "l">>)
    /\ ret.value.kv["ai_formatting"].kv["temperature"] = PyFloat(700)
    /\ ret.value.kv["custom"] = PyStr(Hi)

ConvertDone == call.op = "convert" /\ ret.kind # "none"

\* the fields by the type their values are to have
IntegerFields ==
    {"timeout", "max_tokens", "silence_threshold", "min_silence_duration"}
FloatFields == {"temperature"}
BooleanFields == {"keep_temp_files"}

\* the value has one of the types
ReturnedA(types) == ret.kind = "return" /\ ret.value.t \in types

(* C33: _convert_env_value converts to the type of the field: for the
   integer fields every string gives an integer (a boolean counts as one, as
   in Python) or a ConfigurationError with code INVALID_ENV_VALUE_TYPE, for
   'temperature' a float or that error, for 'keep_temp_files' a boolean, and
   for every other field the string itself, unchanged. *)
C33_ConvertsToFieldType ==
    ConvertDone =>
        /\ call.field \in IntegerFields =>
              \/ ReturnedA({"int", "bool"})
              \/ ret = ConfigurationError("INVALID_ENV_VALUE_TYPE")
        /\ call.field \in FloatFields =>
              \/ ReturnedA({"float"})
              \/ ret = ConfigurationError("INVALID_ENV_VALUE_TYPE")
        /\ call.field \in BooleanFields => ReturnedA({"bool"})
        /\ call.field \notin IntegerFields \cup FloatFields \cup BooleanFields
              => ret = Returned(PyStr(call.value))

\* the name starts with an underscore
Underscored(k) == Spelling[k][1] = "_"

\* what Settings.dict() of an object gives: its attributes that are not
\* underscored
PublicPart(settings) ==
    [k \in {a \in DOMAIN settings.attributes : ~Underscored(a)} |->
        settings.attributes[k]]

\* load_config has read the file that the call of save_config before it
\* wrote, and no mapped environment variable is set
RoundTripDone ==
    /\ LoadDone
    /\ call.after.op = "save_config" /\ call.after_ret.kind = "return"
    /\ LoadedPath = call.after.config_path
    /\ SetEntries = {}

(* C34: with no mapped environment variable set, load_config(p) after
   save_config(s, p) returns settings whose dict() equals s.dict(), for every
   Settings s whose public attributes YAML can represent; the attributes
   whose names start with an underscore are not in the saved file. *)
C34_SaveLoadRoundTrip ==
    /\ RoundTripDone =>
          /\ ret.kind = "return"
          /\ PublicPart(ret.value) = PublicPart(call.after.settings)
    /\ call.op = "save_config" /\ ret.kind = "return" =>
          /\ files[call.config_path].kind = "yaml"
          /\ \A k \in DOMAIN files[call.config_path].doc.members :
                ~Underscored(k)

\* strings that read as other YAML values, and an underscored attribute,
\* went through the file
C34_Witness ==
    /\ RoundTripDone
    /\ DOMAIN call.after.settings.attributes = {"whisper", "custom", "_cache"}
    /\ call.after.settings.attributes["whisper"] = PyStr(<<"3", "0">>)
    /\ call.after.settings.attributes["custom"] = PyStr(TrueStr)
    /\ DOMAIN ret.value.attributes = {"whisper", "custom"}
    /\ "HOME" \in DOMAIN environ

(* C35: the decoding parameters (API_SETTINGS) and the poll interval are as
   the constructor set them after every step of upload_and_get_task_id,
   poll_for_result, seconds_to_srt_time and save_transcription_as_srt, so
   that every submission request of the instance carries the same
   parameters, one bag per request. *)
C35_ParametersFixed ==
    /\ attrs = [API_SETTINGS |-> API_SETTINGS, POLL_INTERVAL |-> POLL_INTERVAL]
    /\ Len(bags) = posts
    /\ \A i \in 1..Len(bags) : bags[i] = API_SETTINGS
    /\ \A i \in 1..Len(sleeps) : sleeps[i] = POLL_INTERVAL

\* two submissions were sent, the job was polled with a sleep in between
\* until it completed, and the payload was saved
C35_Witness ==
    /\ Len(bags) = 2
    /\ pc = "returned" /\ Len(sleeps) >= 1
    /\ call.op = "save" /\ ret = [kind |-> "return", value |-> TRUE]

====
